---------------------------- MODULE Spec2Model ----------------------------
(***************************************************************************)
(* Model of the response-recovery pipeline of the SOC1 report analyzer    *)
(* (class OpenRouterAPI): the strategy cascade that turns the model's     *)
(* response text into a record, transformSOC1Result, the chunk splitter,  *)
(* the per-chunk loop and the merge of the partial records, the progress  *)
(* reports of analyzeSOC1Report and normalizeContent with safeStringify;  *)
(* of the table detection of class PDFProcessor (extractTablesFromPage    *)
(* and what it calls); and of validateConfig (config.ts).                 *)
(*                                                                         *)
(* Text is modelled at two granularities.  The response text handed to    *)
(* the parse stage is a sequence of lexemes (a brace, a quoted string, a  *)
(* bare word, a blank, a code fence ...): the regular expressions of the  *)
(* cascade and JSON.parse are translated to that granularity.  The report *)
(* text handed to splitTextIntoChunks is a sequence of characters.        *)
(***************************************************************************)
EXTENDS Integers, Sequences, FiniteSets, TLC

(***************************************************************************)
(* Lexemes.  k is the lexical class, t the characters (for a quoted       *)
(* string, the characters between the quotes).                            *)
(***************************************************************************)
P(t) == [k |-> "p", t |-> t]
S(t) == [k |-> "str", t |-> t]
W(t) == [k |-> "word", t |-> t]
N(t) == [k |-> "num", t |-> t]
Phrase(t) == [k |-> "phrase", t |-> t]
LBrace == P("{")
RBrace == P("}")
LBrack == P("[")
RBrack == P("]")
Colon == P(":")
Comma == P(",")
Dot == P(".")
Sp == [k |-> "ws", t |-> " "]
Nl == [k |-> "ws", t |-> "\n"]
\* The code fence, three backquotes (written ~~~ here).
Fence == [k |-> "fence", t |-> "~~~"]
JsonTag == W("json")
Null == W("null")

\* The characters a lexeme stands for.
LexText(l) == IF l.k = "str" THEN "\"" \o l.t \o "\"" ELSE l.t
IsWs(l) == l.k = "ws"

RECURSIVE ConcatText(_)
ConcatText(s) == IF s = <<>> THEN "" ELSE LexText(Head(s)) \o ConcatText(Tail(s))

RECURSIVE StripWs(_)
StripWs(s) ==
  IF s = <<>> THEN <<>>
  ELSE IF IsWs(Head(s)) THEN StripWs(Tail(s))
  ELSE <<Head(s)>> \o StripWs(Tail(s))

\* String.prototype.trim on a lexeme sequence: blanks at both ends go.
RECURSIVE TrimLeft(_)
TrimLeft(s) == IF s # <<>> /\ IsWs(Head(s)) THEN TrimLeft(Tail(s)) ELSE s
RECURSIVE TrimRight(_)
TrimRight(s) ==
  IF s # <<>> /\ IsWs(s[Len(s)]) THEN TrimRight(SubSeq(s, 1, Len(s) - 1)) ELSE s
Trim(s) == TrimRight(TrimLeft(s))

\* Index of the first / last occurrence of lexeme l in s, 0 when there is none.
FirstIndexOf(s, l) ==
  IF \E i \in 1..Len(s) : s[i] = l
  THEN CHOOSE i \in 1..Len(s) : s[i] = l /\ \A j \in 1..(i - 1) : s[j] # l
  ELSE 0
LastIndexOf(s, l) ==
  IF \E i \in 1..Len(s) : s[i] = l
  THEN CHOOSE i \in 1..Len(s) : s[i] = l /\ \A j \in (i + 1)..Len(s) : s[j] # l
  ELSE 0

(***************************************************************************)
(* JSON.parse.  A JSON value is represented by its lexemes without the    *)
(* blanks; Undefined (the empty sequence) is JavaScript's undefined, and  *)
(* ParseError the exception JSON.parse throws.                            *)
(***************************************************************************)
Undefined == <<>>
ParseError == <<P("SyntaxError")>>
IntTexts == {"0", "1", "2"}
IsScalar(l) ==
  \/ l.k = "str"
  \/ l.k = "num"
  \/ l.k = "bigint"
  \/ l.k = "word" /\ l.t \in ({"null", "true", "false"} \cup IntTexts)

\* ValueEnd(s, i): the index after the JSON value that starts at s[i], or 0
\* when no well-formed value starts there.
RECURSIVE ValueEnd(_, _), MembersEnd(_, _), ItemsEnd(_, _)
ValueEnd(s, i) ==
  IF i > Len(s) THEN 0
  ELSE IF IsScalar(s[i]) THEN i + 1
  ELSE IF s[i] = LBrace
    THEN IF i + 1 <= Len(s) /\ s[i + 1] = RBrace THEN i + 2 ELSE MembersEnd(s, i + 1)
  ELSE IF s[i] = LBrack
    THEN IF i + 1 <= Len(s) /\ s[i + 1] = RBrack THEN i + 2 ELSE ItemsEnd(s, i + 1)
  ELSE 0
MembersEnd(s, i) ==
  IF i + 1 > Len(s) THEN 0
  ELSE IF s[i].k # "str" \/ s[i + 1] # Colon THEN 0
  ELSE LET e == ValueEnd(s, i + 2) IN
       IF e = 0 \/ e > Len(s) THEN 0
       ELSE IF s[e] = RBrace THEN e + 1
       ELSE IF s[e] = Comma THEN MembersEnd(s, e + 1)
       ELSE 0
ItemsEnd(s, i) ==
  LET e == ValueEnd(s, i) IN
  IF e = 0 \/ e > Len(s) THEN 0
  ELSE IF s[e] = RBrack THEN e + 1
  ELSE IF s[e] = Comma THEN ItemsEnd(s, e + 1)
  ELSE 0

WellFormed(s) == s # <<>> /\ ValueEnd(s, 1) = Len(s) + 1
JSONParse(text) ==
  LET s == StripWs(text) IN IF WellFormed(s) THEN s ELSE ParseError

IsObject(v) == v # <<>> /\ v[1] = LBrace
IsArray(v) == v # <<>> /\ v[1] = LBrack
\* JavaScript truthiness: undefined, null, false, 0 and "" are falsy.
Truthy(v) == v \notin {Undefined, <<Null>>, <<W("false")>>, <<W("0")>>, <<S("")>>}

\* The elements of an array value whose first element starts at v[i].
RECURSIVE ElementsFrom(_, _)
ElementsFrom(v, i) ==
  IF i > Len(v) \/ v[i] = RBrack THEN <<>>
  ELSE LET e == ValueEnd(v, i) IN
       <<SubSeq(v, i, e - 1)>> \o ElementsFrom(v, IF v[e] = Comma THEN e + 1 ELSE e)
Elements(v) == IF IsArray(v) THEN ElementsFrom(v, 2) ELSE <<>>

\* Property read obj[key]: the last member named key wins, as in JSON.parse;
\* reading a property of a number, string, boolean or array gives undefined.
RECURSIVE GetFrom(_, _, _, _)
GetFrom(v, i, key, found) ==
  IF i > Len(v) \/ v[i] = RBrace THEN found
  ELSE LET e == ValueEnd(v, i + 2) IN
       GetFrom(v, IF v[e] = Comma THEN e + 1 ELSE e, key,
               IF v[i].t = key THEN SubSeq(v, i + 2, e - 1) ELSE found)
Get(v, key) == IF IsObject(v) THEN GetFrom(v, 2, key, Undefined) ELSE Undefined

\* Building values: an array of the values in items, an object of the
\* <<key, value>> pairs in members.
RECURSIVE JoinValues(_)
JoinValues(items) ==
  IF items = <<>> THEN <<>>
  ELSE IF Len(items) = 1 THEN items[1]
  ELSE items[1] \o <<Comma>> \o JoinValues(Tail(items))
MkArray(items) == <<LBrack>> \o JoinValues(items) \o <<RBrack>>
RECURSIVE JoinMembers(_)
JoinMembers(members) ==
  IF members = <<>> THEN <<>>
  ELSE <<S(members[1][1]), Colon>> \o members[1][2]
       \o (IF Len(members) = 1 THEN <<>> ELSE <<Comma>> \o JoinMembers(Tail(members)))
MkObject(members) == <<LBrace>> \o JoinMembers(members) \o <<RBrace>>
Str(t) == <<S(t)>>
Num(t) == <<N(t)>>

(***************************************************************************)
(* The structural strategies of analyzeSingleChunk.                       *)
(***************************************************************************)
NoMatch == <<>>

\* The first index at or after i that holds no blank (Len(s) + 1 at the end).
RECURSIVE SkipWs(_, _)
SkipWs(s, i) == IF i <= Len(s) /\ IsWs(s[i]) THEN SkipWs(s, i + 1) ELSE i

\* content.match(/\{[\s\S]*\}/): the greedy span from the first { to the
\* last } after it.
BraceMatch(content) ==
  LET i == FirstIndexOf(content, LBrace)
      j == LastIndexOf(content, RBrace)
  IN IF i # 0 /\ j > i THEN SubSeq(content, i, j) ELSE NoMatch

\* Group 1 of /```(?:json)?\s*(\{[\s\S]*?\})\s*```/ for a match that starts
\* at the fence s[p]: the lazy span from the { to the first } that is
\* followed, blanks apart, by a fence.
FenceGroupAt(s, p) ==
  LET q == SkipWs(s, IF p + 1 <= Len(s) /\ s[p + 1] = JsonTag THEN p + 2 ELSE p + 1)
      ends == {r \in (q + 1)..Len(s) :
                 /\ s[r] = RBrace
                 /\ SkipWs(s, r + 1) <= Len(s)
                 /\ s[SkipWs(s, r + 1)] = Fence}
  IN IF q <= Len(s) /\ s[q] = LBrace /\ ends # {}
     THEN SubSeq(s, q, CHOOSE r \in ends : \A r2 \in ends : r <= r2)
     ELSE NoMatch
FenceMatch(content) ==
  LET starts == {p \in 1..Len(content) :
                   content[p] = Fence /\ FenceGroupAt(content, p) # NoMatch}
  IN IF starts = {} THEN NoMatch
     ELSE FenceGroupAt(content, CHOOSE p \in starts : \A p2 \in starts : p <= p2)

\* CleanEnds with the first replace removing everything before the last {.
CleanEndsFromLastBrace(content) ==
  LET i == LastIndexOf(content, LBrace)
      a == IF i = 0 THEN <<>> ELSE SubSeq(content, i, Len(content))
      j == LastIndexOf(a, RBrace)
  IN Trim(IF j = 0 THEN <<>> ELSE SubSeq(a, 1, j))
\* .replace(/^[^{]*/, '').replace(/[^}]*$/, '').trim()
CleanEnds(content) ==
  LET i == FirstIndexOf(content, LBrace)
      a == IF i = 0 THEN <<>> ELSE SubSeq(content, i, Len(content))
      j == LastIndexOf(a, RBrace)
  IN Trim(IF j = 0 THEN <<>> ELSE SubSeq(a, 1, j))
StartsAndEndsWithBraces(s) == s # <<>> /\ s[1] = LBrace /\ s[Len(s)] = RBrace

\* .replace(/\n\s*\n/g, '\n'): in a run of blanks, the stretch from its first
\* newline to its last newline becomes one newline.
RECURSIVE LastNlOfRun(_, _, _)
LastNlOfRun(s, i, last) ==
  IF i <= Len(s) /\ IsWs(s[i])
  THEN LastNlOfRun(s, i + 1, IF s[i] = Nl THEN i ELSE last)
  ELSE last
RECURSIVE CollapseFrom(_, _)
CollapseFrom(s, i) ==
  IF i > Len(s) THEN <<>>
  ELSE IF s[i] = Nl THEN <<Nl>> \o CollapseFrom(s, LastNlOfRun(s, i, i) + 1)
  ELSE <<s[i]>> \o CollapseFrom(s, i + 1)
CollapseBlankLines(s) == CollapseFrom(s, 1)

\* .replace(/,\s*}/g, '}') and .replace(/,\s*]/g, ']') (closer is } or ]).
RECURSIVE DropTrailingFrom(_, _, _)
DropTrailingFrom(s, i, closer) ==
  IF i > Len(s) THEN <<>>
  ELSE IF s[i] = Comma /\ SkipWs(s, i + 1) <= Len(s) /\ s[SkipWs(s, i + 1)] = closer
    THEN <<closer>> \o DropTrailingFrom(s, SkipWs(s, i + 1) + 1, closer)
  ELSE <<s[i]>> \o DropTrailingFrom(s, i + 1, closer)
DropTrailingCommas(s, closer) == DropTrailingFrom(s, 1, closer)

\* .replace(/([{,]\s*)(\w+):/g, '$1"$2":'): a bare word between { or , and
\* a colon is quoted.
RECURSIVE QuoteKeysFrom(_, _)
QuoteKeysFrom(s, i) ==
  IF i > Len(s) THEN <<>>
  ELSE LET j == SkipWs(s, i + 1) IN
       IF /\ s[i] \in {LBrace, Comma}
          /\ j + 1 <= Len(s)
          /\ s[j].k = "word"
          /\ s[j + 1] = Colon
       THEN SubSeq(s, i, j - 1) \o <<S(s[j].t), Colon>> \o QuoteKeysFrom(s, j + 2)
       ELSE <<s[i]>> \o QuoteKeysFrom(s, i + 1)
QuoteBareKeys(s) == QuoteKeysFrom(s, 1)

\* .replace(/:\s*([^",{\[\s][^,}\]]*?)([,}\]])/g, ': "$1"$2'): after a colon,
\* what does not start with a quote, comma, { or [ is quoted up to the next
\* comma, } or ].  Quoting a stretch that itself holds a quote or a newline
\* leaves no JSON string: it becomes the lexeme Junk.
Junk == P("junk")
Terminators == {Comma, RBrace, RBrack}
RECURSIVE NextTerminator(_, _)
NextTerminator(s, i) ==
  IF i > Len(s) THEN 0
  ELSE IF s[i] \in Terminators THEN i
  ELSE NextTerminator(s, i + 1)
Quoted(run) ==
  IF \E n \in 1..Len(run) : run[n].k = "str" \/ run[n] = Nl
  THEN Junk
  ELSE S(ConcatText(run))
RECURSIVE QuoteValuesFrom(_, _)
QuoteValuesFrom(s, i) ==
  IF i > Len(s) THEN <<>>
  ELSE LET j == SkipWs(s, i + 1)
           r == NextTerminator(s, j + 1)
       IN IF /\ s[i] = Colon
             /\ j <= Len(s)
             /\ s[j].k # "str"
             /\ s[j] \notin {Comma, LBrace, LBrack}
             /\ r # 0
          THEN <<Colon, Sp, Quoted(SubSeq(s, j, r - 1)), s[r]>> \o QuoteValuesFrom(s, r + 1)
          ELSE <<s[i]>> \o QuoteValuesFrom(s, i + 1)
QuoteBareValues(s) == QuoteValuesFrom(s, 1)

\* The cleaned text of strategy 5.
AggressiveClean(content) ==
  LET i == FirstIndexOf(content, LBrace)
      a == IF i = 0 THEN <<>> ELSE SubSeq(content, i, Len(content))
      j == LastIndexOf(a, RBrace)
      b == IF j = 0 THEN <<>> ELSE SubSeq(a, 1, j)
      c == Trim(DropTrailingCommas(DropTrailingCommas(CollapseBlankLines(b), RBrace), RBrack))
  IN QuoteBareValues(QuoteBareKeys(c))

\* The text each strategy hands to JSON.parse (NoMatch: it parses nothing).
Strategy1Text(content) == BraceMatch(content)
Strategy2Text(content) == content
Strategy3Text(content) == FenceMatch(content)
Strategy4Text(content) ==
  IF StartsAndEndsWithBraces(CleanEnds(content)) THEN CleanEnds(content) ELSE NoMatch
Strategy5Text(content) ==
  IF StartsAndEndsWithBraces(AggressiveClean(content)) THEN AggressiveClean(content) ELSE NoMatch

\* if (!result): the guard of strategies 2 to 5 and of the branch after them.
\* (NotResultAlways: the guard left out.)
NotResultAlways(result) == TRUE
NotResult(result) == ~Truthy(result)

\* One strategy: what result is after it, given what it was before.  A
\* JSON.parse that throws is caught and leaves result as it was.
ParseInto(text, result) ==
  IF JSONParse(text) = ParseError THEN result ELSE JSONParse(text)
Strategy1(content, result) == ParseInto(Strategy1Text(content), result)
Strategy2(content, result) ==
  IF NotResult(result) THEN ParseInto(Strategy2Text(content), result) ELSE result
Strategy3(content, result) ==
  IF NotResult(result) THEN ParseInto(Strategy3Text(content), result) ELSE result
Strategy4(content, result) ==
  IF NotResult(result) THEN ParseInto(Strategy4Text(content), result) ELSE result
Strategy5(content, useLocal, result) ==
  IF NotResult(result) /\ useLocal THEN ParseInto(Strategy5Text(content), result) ELSE result

(***************************************************************************)
(* transformSOC1Result: the record handed to the caller.                  *)
(***************************************************************************)
\* JavaScript's  v || d.
\* (OrElseDefault: the default taken whatever v is.)
OrElseDefault(v, d) == d
OrElse(v, d) == IF Truthy(v) THEN v ELSE d
PageOne == MkArray(<<Num("1")>>)

\* String(v) as a template literal renders it.
RECURSIVE JSString(_), JSJoin(_)
JSString(v) ==
  IF IsObject(v) THEN "[object Object]"
  ELSE IF IsArray(v) THEN JSJoin(Elements(v))
  ELSE v[1].t
JSJoin(items) ==
  IF items = <<>> THEN ""
  ELSE IF Len(items) = 1 THEN (IF items[1] = <<Null>> THEN "" ELSE JSString(items[1]))
  ELSE (IF items[1] = <<Null>> THEN "" ELSE JSString(items[1])) \o "," \o JSJoin(Tail(items))

ControlFinding(control, index) ==
  [id |-> "control-failure-" \o ToString(index),
   attributeName |-> OrElse(Get(control, "id"), Str("Control Failure " \o ToString(index + 1))),
   description |-> OrElse(Get(control, "description"), Str("Control failure description not provided")),
   value |-> OrElse(Get(control, "effectiveness"), Str("Not specified")),
   pageNumbers |-> OrElse(Get(control, "pageNumbers"), PageOne),
   confidence |-> OrElse(Get(control, "confidenceScore"), Num("0.8")),
   category |-> "Control Failures",
   dataType |-> "string",
   critical |-> Get(control, "effectiveness") = Str("ineffective")]
ExclusionFinding(exclusion, index) ==
  [id |-> "exclusion-" \o ToString(index),
   attributeName |-> OrElse(Get(exclusion, "id"), Str("Exclusion " \o ToString(index + 1))),
   description |-> OrElse(Get(exclusion, "description"), Str("Exclusion description not provided")),
   value |-> OrElse(Get(exclusion, "reason"), Str("No reason provided")),
   pageNumbers |-> OrElse(Get(exclusion, "pageNumbers"), PageOne),
   confidence |-> OrElse(Get(exclusion, "confidenceScore"), Num("0.9")),
   category |-> "Exclusions",
   dataType |-> "string",
   critical |-> FALSE]
CarveOutFinding(carveOut, index) ==
  [id |-> "carveout-" \o ToString(index),
   attributeName |-> OrElse(Get(carveOut, "id"), Str("Carve-Out " \o ToString(index + 1))),
   description |-> OrElse(Get(carveOut, "description"), Str("Carve-out description not provided")),
   value |-> Str(JSString(OrElse(Get(carveOut, "provider"), Str("Unknown Provider")))
                 \o " - "
                 \o JSString(OrElse(Get(carveOut, "reason"), Str("No reason provided")))),
   pageNumbers |-> OrElse(Get(carveOut, "pageNumbers"), PageOne),
   confidence |-> OrElse(Get(carveOut, "confidenceScore"), Num("0.9")),
   category |-> "Carve-Outs",
   dataType |-> "string",
   critical |-> FALSE]
SummaryFinding(summary) ==
  [id |-> "executive-summary",
   attributeName |-> Str("Executive Summary"),
   description |-> Str("SOC1 Report Executive Summary"),
   value |-> MkObject(<< <<"reportPeriod", OrElse(Get(summary, "reportPeriod"), Str("Not specified"))>>,
                         <<"serviceOrganization", OrElse(Get(summary, "serviceOrganization"), Str("Not specified"))>>,
                         <<"auditor", OrElse(Get(summary, "auditor"), Str("Not specified"))>>,
                         <<"opinion", OrElse(Get(summary, "opinion"), Str("Not specified"))>> >>),
   pageNumbers |-> PageOne,
   confidence |-> Num("1"),
   category |-> "Executive Summary",
   dataType |-> "object",
   critical |-> FALSE]

ListKeys == <<"controlFailures", "exclusions", "carveOuts">>
\* The list the forEach of a category runs over (none unless an array).
ListOf(aiResult, key) ==
  IF Truthy(Get(aiResult, key)) /\ IsArray(Get(aiResult, key))
  THEN Elements(Get(aiResult, key))
  ELSE <<>>
\* control.id on a null list entry: the TypeError transformSOC1Result dies of.
TransformThrows(aiResult) ==
  \E n \in 1..Len(ListKeys) :
    \E m \in 1..Len(ListOf(aiResult, ListKeys[n])) : ListOf(aiResult, ListKeys[n])[m] = <<Null>>
Categories == <<"Control Failures", "Exclusions", "Carve-Outs", "Executive Summary">>
transformSOC1Result(aiResult) ==
  [findings |->
     [n \in 1..Len(ListOf(aiResult, "controlFailures")) |->
        ControlFinding(ListOf(aiResult, "controlFailures")[n], n - 1)]
     \o [n \in 1..Len(ListOf(aiResult, "exclusions")) |->
        ExclusionFinding(ListOf(aiResult, "exclusions")[n], n - 1)]
     \o [n \in 1..Len(ListOf(aiResult, "carveOuts")) |->
        CarveOutFinding(ListOf(aiResult, "carveOuts")[n], n - 1)]
     \o (IF Truthy(Get(aiResult, "executiveSummary"))
         THEN <<SummaryFinding(Get(aiResult, "executiveSummary"))>>
         ELSE <<>>),
   categories |-> Categories,
   rawResult |-> aiResult]

(***************************************************************************)
(* extractFromNaturalLanguage.  A label of a pattern (auditor, opinion,   *)
(* exclusion ...) is found inside a lexeme: LabelTable lists, for the     *)
(* lexemes of the modelled texts, the labels each one holds and the       *)
(* characters (rest) that follow the label inside the lexeme.  The texts  *)
(* are lower case, so the /i flag changes nothing.                         *)
(***************************************************************************)
Quote == P("\"")
LabelTable ==
  {[label |-> "auditor", lex |-> W("auditor"), rest |-> <<>>],
   [label |-> "auditor", lex |-> S("auditor"), rest |-> <<Quote>>],
   [label |-> "organization", lex |-> W("organization"), rest |-> <<>>],
   [label |-> "organization", lex |-> Phrase("service organization"), rest |-> <<>>],
   [label |-> "service organization", lex |-> Phrase("service organization"), rest |-> <<>>],
   [label |-> "period", lex |-> W("period"), rest |-> <<>>],
   [label |-> "opinion", lex |-> W("opinion"), rest |-> <<>>],
   [label |-> "qualified", lex |-> W("qualified"), rest |-> <<>>],
   [label |-> "qualified", lex |-> W("unqualified"), rest |-> <<>>],
   [label |-> "unqualified", lex |-> W("unqualified"), rest |-> <<>>],
   [label |-> "exclusion", lex |-> W("exclusion"), rest |-> <<>>],
   [label |-> "exclusion", lex |-> S("exclusions"), rest |-> <<W("s"), Quote>>],
   [label |-> "control failure", lex |-> Phrase("control failure"), rest |-> <<>>],
   [label |-> "carve-out", lex |-> Phrase("carve-out"), rest |-> <<>>]}
Mentions(l, label) == \E e \in LabelTable : e.label = label /\ e.lex = l
RestOf(l, label) == (CHOOSE e \in LabelTable : e.label = label /\ e.lex = l).rest

\* [^.\n]+ from s[j] on: the lexemes up to the next full stop or newline.
RECURSIVE Run(_, _)
Run(s, j) ==
  IF j > Len(s) \/ s[j] \in {Dot, Nl} THEN <<>> ELSE <<s[j]>> \o Run(s, j + 1)
\* [:\s]* from s[j] on: the index after the colons and blanks.
RECURSIVE SkipColonWs(_, _)
SkipColonWs(s, j) ==
  IF j <= Len(s) /\ (s[j] = Colon \/ IsWs(s[j])) THEN SkipColonWs(s, j + 1) ELSE j
RECURSIVE SkipNl(_, _)
SkipNl(s, j) == IF j <= Len(s) /\ s[j] = Nl THEN SkipNl(s, j + 1) ELSE j

\* Group 1 of /label[:\s]*([^.\n]+)/ for a match at the label in s[i], NoMatch
\* when there is none.  When nothing capturable follows the colons and
\* blanks, the engine backtracks and captures the last colon or space of them.
FieldCaptureAt(s, i, label) ==
  LET j == SkipColonWs(s, i + 1)
      back == {n \in (i + 1)..(j - 1) : s[n] \in {Colon, Sp}}
  IN IF RestOf(s[i], label) # <<>> THEN RestOf(s[i], label) \o Run(s, i + 1)
     ELSE IF Run(s, j) # <<>> THEN Run(s, j)
     ELSE IF back # {} THEN <<s[CHOOSE n \in back : \A m \in back : m <= n]>>
     ELSE NoMatch
\* content.match(/label[:\s]*([^.\n]+)/i): group 1 of the leftmost match.
FieldCapture(s, label) ==
  LET at == {i \in 1..Len(s) : Mentions(s[i], label) /\ FieldCaptureAt(s, i, label) # NoMatch}
  IN IF at = {} THEN NoMatch
     ELSE FieldCaptureAt(s, CHOOSE i \in at : \A i2 \in at : i <= i2, label)
\* The loop over a field's patterns: the first whose capture, trimmed, is
\* longer than 2 characters sets the field; otherwise the default stays.
RECURSIVE ExtractField(_, _, _)
ExtractField(s, labels, default) ==
  IF labels = <<>> THEN default
  ELSE LET c == FieldCapture(s, Head(labels)) IN
       IF c # NoMatch /\ Len(ConcatText(Trim(c))) > 2
       THEN Str(ConcatText(Trim(c)))
       ELSE ExtractField(s, Tail(labels), default)
serviceOrgPatterns == <<"service organization", "organization", "company", "entity">>
auditorPatterns == <<"auditor", "audit firm", "cpa firm", "examiner">>
periodPatterns == <<"report period", "period", "as of", "through">>
opinionKeywords == <<"unqualified", "qualified", "adverse", "disclaimer">>
\* The opinion loop: any match ends it; a keyword pattern has no group and
\* gives the keyword itself.
RECURSIVE ExtractKeyword(_, _, _)
ExtractKeyword(s, labels, default) ==
  IF labels = <<>> THEN default
  ELSE IF \E i \in 1..Len(s) : Mentions(s[i], Head(labels)) THEN Str(Head(labels))
  ELSE ExtractKeyword(s, Tail(labels), default)
ExtractOpinion(s) ==
  IF FieldCapture(s, "opinion") # NoMatch
  THEN Str(ConcatText(Trim(FieldCapture(s, "opinion"))))
  ELSE ExtractKeyword(s, opinionKeywords, Str("Not specified"))

\* content.match(/label[^.]*?([^.\n]+)/gi): the matches left to right, each
\* trimmed.  The lazy [^.]*? steps over newlines only; a match runs to the
\* next full stop or newline and the search resumes after it.
RECURSIVE KeywordMatches(_, _, _)
KeywordMatches(s, i, label) ==
  IF i > Len(s) THEN <<>>
  ELSE IF ~Mentions(s[i], label) THEN KeywordMatches(s, i + 1, label)
  ELSE LET rest == RestOf(s[i], label)
           j == IF rest # <<>> THEN i + 1 ELSE SkipNl(s, i + 1)
           run == Run(s, j)
       IN IF rest = <<>> /\ run = <<>> THEN KeywordMatches(s, i + 1, label)
          ELSE <<label \o ConcatText(TrimRight(rest \o SubSeq(s, i + 1, j - 1) \o run))>>
               \o KeywordMatches(s, j + Len(run), label)

extractedControlFailure(text, index) ==
  MkObject(<< <<"id", Str("extracted-control-failure-" \o ToString(index + 1))>>,
              <<"description", Str(text)>>,
              <<"type", Str("unknown")>>,
              <<"effectiveness", Str("not_tested")>>,
              <<"exceptions", MkArray(<<Str("Extracted from natural language")>>)>>,
              <<"pageNumbers", PageOne>>,
              <<"confidenceScore", Num("0.7")>> >>)
extractedExclusion(text, index) ==
  MkObject(<< <<"id", Str("extracted-exclusion-" \o ToString(index + 1))>>,
              <<"description", Str(text)>>,
              <<"reason", Str("Extracted from natural language response")>>,
              <<"pageNumbers", PageOne>>,
              <<"confidenceScore", Num("0.7")>> >>)
extractedCarveOut(text, index) ==
  MkObject(<< <<"id", Str("extracted-carveout-" \o ToString(index + 1))>>,
              <<"description", Str(text)>>,
              <<"provider", Str("Unknown")>>,
              <<"reason", Str("Extracted from natural language response")>>,
              <<"pageNumbers", PageOne>>,
              <<"confidenceScore", Num("0.7")>> >>)

\* The result object, or null (<<Null>>) when hasContent is false.
extractFromNaturalLanguage(content) ==
  LET serviceOrganization == ExtractField(content, serviceOrgPatterns, Str("Not specified"))
      auditor == ExtractField(content, auditorPatterns, Str("Not specified"))
      reportPeriod == ExtractField(content, periodPatterns, Str("Not specified"))
      opinion == ExtractOpinion(content)
      cf == KeywordMatches(content, 1, "control failure")
      ex == KeywordMatches(content, 1, "exclusion")
      co == KeywordMatches(content, 1, "carve-out")
      hasContent == \/ serviceOrganization # Str("Not specified")
                    \/ auditor # Str("Not specified")
                    \/ Len(cf) > 0
                    \/ Len(ex) > 0
                    \/ Len(co) > 0
  IN IF hasContent
     THEN MkObject(<<
            <<"executiveSummary",
              MkObject(<< <<"reportPeriod", reportPeriod>>,
                          <<"serviceOrganization", serviceOrganization>>,
                          <<"auditor", auditor>>,
                          <<"opinion", opinion>> >>)>>,
            <<"controlFailures", MkArray([n \in 1..Len(cf) |-> extractedControlFailure(cf[n], n - 1)])>>,
            <<"exclusions", MkArray([n \in 1..Len(ex) |-> extractedExclusion(ex[n], n - 1)])>>,
            <<"carveOuts", MkArray([n \in 1..Len(co) |-> extractedCarveOut(co[n], n - 1)])>> >>)
     ELSE <<Null>>

(***************************************************************************)
(* createFallbackResult: the stub record's source object.                 *)
(***************************************************************************)
\* content.substring(0, 1000) + '...' for a text of more than 1000
\* characters; the texts of the model are shorter and are kept whole.
PreviewChars == 1000
TruncatedContent(content) ==
  IF Len(ConcatText(content)) > PreviewChars
  THEN "(the first 1000 characters)..."
  ELSE ConcatText(content)
createFallbackResult(content) ==
  MkObject(<<
    <<"executiveSummary",
      MkObject(<< <<"reportPeriod", Str("Unable to extract - see raw content")>>,
                  <<"serviceOrganization", Str("Unable to extract - see raw content")>>,
                  <<"auditor", Str("Unable to extract - see raw content")>>,
                  <<"opinion", Str("Unable to extract - see raw content")>> >>)>>,
    <<"controlFailures", MkArray(<<
      MkObject(<< <<"id", Str("fallback-control-failure-1")>>,
                  <<"description", Str("Raw AI response could not be parsed as JSON. Response length: "
                                       \o ToString(Len(ConcatText(content)))
                                       \o " characters. Check console for full response.")>>,
                  <<"type", Str("unknown")>>,
                  <<"effectiveness", Str("not_tested")>>,
                  <<"exceptions", MkArray(<<Str("JSON parsing failed")>>)>>,
                  <<"pageNumbers", PageOne>>,
                  <<"confidenceScore", Num("0.1")>> >>) >>)>>,
    <<"exclusions", MkArray(<<
      MkObject(<< <<"id", Str("fallback-exclusion-1")>>,
                  <<"description", Str("AI response parsing failed. Raw content preview: "
                                       \o TruncatedContent(content))>>,
                  <<"reason", Str("The local model may not be following the expected JSON format. Check console logs for the full response.")>>,
                  <<"pageNumbers", PageOne>>,
                  <<"confidenceScore", Num("0.1")>> >>) >>)>>,
    <<"carveOuts", MkArray(<<
      MkObject(<< <<"id", Str("fallback-carveout-1")>>,
                  <<"description", Str("Unable to extract carve-outs due to JSON parsing error")>>,
                  <<"provider", Str("Unknown")>>,
                  <<"reason", Str("Local model response format issue. Check console for actual response.")>>,
                  <<"pageNumbers", PageOne>>,
                  <<"confidenceScore", Num("0.1")>> >>) >>)>> >>)

(***************************************************************************)
(* The parse stage as a function: what analyzeSingleChunk does with the   *)
(* normalized response text, a record returned or an error thrown.        *)
(***************************************************************************)
NoRecord == [findings |-> <<>>, categories |-> <<>>, rawResult |-> Undefined]
\* transformSOC1Result inside the try block: its TypeError is caught and
\* rethrown as 'AI response could not be parsed as valid JSON: ...'.
Finish(aiResult) ==
  IF TransformThrows(aiResult)
  THEN [outcome |-> "thrown", record |-> NoRecord]
  ELSE [outcome |-> "returned", record |-> transformSOC1Result(aiResult)]
Cascade(content, useLocal) ==
  Strategy5(content, useLocal,
    Strategy4(content, Strategy3(content, Strategy2(content, Strategy1(content, <<Null>>)))))
ParseStage(content, useLocal) ==
  IF ~NotResult(Cascade(content, useLocal)) THEN Finish(Cascade(content, useLocal))
  ELSE IF Truthy(extractFromNaturalLanguage(content))
    THEN Finish(extractFromNaturalLanguage(content))
  ELSE Finish(createFallbackResult(content))

(***************************************************************************)
(* The response texts of the model: prefix, body, suffix.                 *)
(***************************************************************************)
ExclusionEX1 == MkObject(<< <<"id", Str("EX-1")>> >>)
Prefixes ==
  { <<>>,
    <<W("result"), Colon, Sp>>,
    <<W("see"), Sp, LBrace, W("word"), RBrace, Sp>>,
    <<Fence, JsonTag, Nl>>,
    <<W("see"), Sp, LBrace, W("word"), RBrace, Sp, Fence, Nl>>,
    <<W("auditor"), Colon, Sp, W("Acme"), Dot, Sp>> }
Suffixes ==
  { <<>>,
    <<Sp, W("done"), Dot>>,
    <<Sp, LBrace, W("word"), RBrace>>,
    <<Nl, Fence>>,
    <<Nl, W("exclusion"), Sp, W("word")>> }
Bodies ==
  { <<>>,
    <<W("word")>>,
    <<W("1")>>,
    <<Null>>,
    <<LBrace, RBrace>>,
    MkObject(<< <<"controlFailures", MkArray(<< <<Null>> >>)>> >>),
    MkObject(<< <<"executiveSummary", MkObject(<< <<"auditor", Str("Acme")>> >>)>>,
                <<"exclusions", MkArray(<<ExclusionEX1>>)>> >>),
    <<LBrace, S("exclusions"), Colon, Sp, LBrack, LBrace, S("id"), Colon, Sp, S("EX-1"),
      RBrace, Comma, RBrack, Comma, Nl, RBrace>>,
    <<LBrace, W("id"), Colon, Sp, W("Acme"), RBrace>>,
    <<LBrace, S("auditor"), Colon, Sp, S("Acme")>>,
    <<W("auditor"), Colon, Sp, W("Acme")>>,
    <<W("qualified"), Sp, W("opinion")>>,
    <<W("exclusion"), Sp, W("word"), Dot, Sp, W("exclusion"), Colon, Sp, W("word")>>,
    MkArray(<<ExclusionEX1, ExclusionEX1>>),
    <<LBrace, S("carveOuts"), Colon, LBrack, W("1"), RBrack, Comma, Nl, Nl,
      S("executiveSummary"), Colon, S(""), RBrace>>,
    <<LBrace, S("controlFailures"), Colon, LBrack, LBrace, S("effectiveness"), Colon,
      S("ineffective"), RBrace, RBrack, RBrace>> }

(***************************************************************************)
(* splitTextIntoChunks.  The report text is a sequence of characters.     *)
(***************************************************************************)
Chars == {"a", "b", ".", " ", "\n"}
IsSpace(c) == c \in {" ", "\n"}
ParagraphSeparator == <<"\n", "\n">>
SentenceSeparator == <<".", " ">>

\* String.prototype.trim on a character sequence.
RECURSIVE TrimStart(_)
TrimStart(t) == IF t # <<>> /\ IsSpace(Head(t)) THEN TrimStart(Tail(t)) ELSE t
RECURSIVE TrimEnd(_)
TrimEnd(t) ==
  IF t # <<>> /\ IsSpace(t[Len(t)]) THEN TrimEnd(SubSeq(t, 1, Len(t) - 1)) ELSE t
TrimText(t) == TrimEnd(TrimStart(t))

\* The index of the last newline in the run of white space that starts at
\* t[i] (last when the run holds none).
RECURSIVE LastNewlineOfRun(_, _, _)
LastNewlineOfRun(t, i, last) ==
  IF i <= Len(t) /\ IsSpace(t[i])
  THEN LastNewlineOfRun(t, i + 1, IF t[i] = "\n" THEN i ELSE last)
  ELSE last
\* text.split(/\n\s*\n/): a separator runs from a newline to the last newline
\* of the same run of white space.  cur is the piece being collected.
RECURSIVE SplitParagraphsFrom(_, _, _)
SplitParagraphsFrom(t, i, cur) ==
  IF i > Len(t) THEN <<cur>>
  ELSE IF t[i] = "\n" /\ LastNewlineOfRun(t, i + 1, 0) # 0
    THEN <<cur>> \o SplitParagraphsFrom(t, LastNewlineOfRun(t, i + 1, 0) + 1, <<>>)
  ELSE SplitParagraphsFrom(t, i + 1, Append(cur, t[i]))
SplitParagraphs(t) == SplitParagraphsFrom(t, 1, <<>>)

\* The first index at or after i that holds no full stop / no white space.
RECURSIVE SkipStops(_, _)
SkipStops(t, i) == IF i <= Len(t) /\ t[i] = "." THEN SkipStops(t, i + 1) ELSE i
RECURSIVE SkipSpace(_, _)
SkipSpace(t, i) == IF i <= Len(t) /\ IsSpace(t[i]) THEN SkipSpace(t, i + 1) ELSE i
\* chunk.split(/[.!?]+\s+/): a separator is a run of full stops and the run
\* of white space after it, which has to hold a character.
RECURSIVE SplitSentencesFrom(_, _, _)
SplitSentencesFrom(t, i, cur) ==
  IF i > Len(t) THEN <<cur>>
  ELSE IF t[i] = "." /\ SkipSpace(t, SkipStops(t, i)) > SkipStops(t, i)
    THEN <<cur>> \o SplitSentencesFrom(t, SkipSpace(t, SkipStops(t, i)), <<>>)
  ELSE SplitSentencesFrom(t, i + 1, Append(cur, t[i]))
SplitSentences(t) == SplitSentencesFrom(t, 1, <<>>)

\* current += (current ? separator : '') + piece
\* (JoinedWithoutSeparator: the separator forgotten.)
JoinedWithoutSeparator(current, separator, piece) == current \o piece
Joined(current, separator, piece) ==
  current \o (IF current # <<>> THEN separator ELSE <<>>) \o piece

\* (AccumulateRestartingEmpty: the chunk started after a push is empty, the
\* piece that did not fit forgotten.)
RECURSIVE AccumulateRestartingEmpty(_, _, _, _)
AccumulateRestartingEmpty(pieces, current, maxChars, separator) ==
  IF pieces = <<>>
  THEN (IF TrimText(current) # <<>> THEN <<TrimText(current)>> ELSE <<>>)
  ELSE IF Len(current) + Len(Head(pieces)) > maxChars /\ Len(current) > 0
    THEN <<TrimText(current)>>
         \o AccumulateRestartingEmpty(Tail(pieces), <<>>, maxChars, separator)
  ELSE AccumulateRestartingEmpty(Tail(pieces), current \o (IF current # <<>> THEN separator ELSE <<>>) \o Head(pieces),
                                 maxChars, separator)

\* The accumulate loop over the pieces and the push of the last chunk: the
\* chunks pushed, given the chunk being built.
RECURSIVE Accumulate(_, _, _, _)
Accumulate(pieces, current, maxChars, separator) ==
  IF pieces = <<>>
  THEN (IF TrimText(current) # <<>> THEN <<TrimText(current)>> ELSE <<>>)
  ELSE IF Len(current) + Len(Head(pieces)) > maxChars /\ Len(current) > 0
    THEN <<TrimText(current)>> \o Accumulate(Tail(pieces), Head(pieces), maxChars, separator)
  ELSE Accumulate(Tail(pieces), Joined(current, separator, Head(pieces)), maxChars, separator)

\* The second loop: a chunk over the budget is split again by sentences.
RECURSIVE SplitLargeChunks(_, _)
SplitLargeChunks(chunkList, maxChars) ==
  IF chunkList = <<>> THEN <<>>
  ELSE (IF Len(Head(chunkList)) > maxChars
        THEN Accumulate(SplitSentences(Head(chunkList)), <<>>, maxChars, SentenceSeparator)
        ELSE <<Head(chunkList)>>)
       \o SplitLargeChunks(Tail(chunkList), maxChars)

CharsPerToken == 4
splitTextIntoChunks(t, maxTok) ==
  SplitLargeChunks(
    Accumulate(SplitParagraphs(t), <<>>, maxTok * CharsPerToken, ParagraphSeparator),
    maxTok * CharsPerToken)

(***************************************************************************)
(* combineChunkResults and removeDuplicates.                              *)
(***************************************************************************)
\* Set.prototype.has compares objects and arrays by identity: two parsed
\* values of those kinds are never the same.
RECURSIVE RemoveFrom(_, _, _)
RemoveFrom(items, idField, seen) ==
  IF items = <<>> THEN <<>>
  ELSE LET id == Get(Head(items), idField) IN
       IF id \in seen THEN RemoveFrom(Tail(items), idField, seen)
       ELSE <<Head(items)>>
            \o RemoveFrom(Tail(items), idField,
                          IF IsObject(id) \/ IsArray(id) THEN seen ELSE seen \cup {id})
\* (removeDuplicatesNamed: the items without the field are all kept.)
removeDuplicatesNamed(items, idField) ==
  [n \in 1..Len(SelectSeq([m \in 1..Len(items) |-> m],
                          LAMBDA m : \/ Get(items[m], idField) = Undefined
                                     \/ \A q \in 1..(m - 1) :
                                          Get(items[q], idField) # Get(items[m], idField))) |->
     items[SelectSeq([m \in 1..Len(items) |-> m],
                     LAMBDA m : \/ Get(items[m], idField) = Undefined
                                \/ \A q \in 1..(m - 1) :
                                     Get(items[q], idField) # Get(items[m], idField))[n]]]
\* (removeDuplicatesNone: nothing filtered out.)
removeDuplicatesNone(items, idField) == items
removeDuplicates(items, idField) == RemoveFrom(items, idField, {})

\* if (!result || !result.rawResult) continue
RECURSIVE Usable(_)
Usable(chunkResults) ==
  IF chunkResults = <<>> THEN <<>>
  ELSE (IF Truthy(Head(chunkResults).rawResult) THEN <<Head(chunkResults).rawResult>> ELSE <<>>)
       \o Usable(Tail(chunkResults))
\* combined.executiveSummary after the loop over the raw results: the first
\* truthy one.  (LastSummary: the last one, as if every chunk overwrote it.)
RECURSIVE LastSummary(_)
LastSummary(raws) ==
  IF raws = <<>> THEN <<Null>>
  ELSE IF Truthy(Get(raws[Len(raws)], "executiveSummary"))
    THEN Get(raws[Len(raws)], "executiveSummary")
  ELSE LastSummary(SubSeq(raws, 1, Len(raws) - 1))
RECURSIVE FirstSummary(_)
FirstSummary(raws) ==
  IF raws = <<>> THEN <<Null>>
  ELSE IF Truthy(Get(Head(raws), "executiveSummary")) THEN Get(Head(raws), "executiveSummary")
  ELSE FirstSummary(Tail(raws))
\* combined[key] after the loop, before removeDuplicates.
RECURSIVE PushAll(_, _)
PushAll(raws, key) ==
  IF raws = <<>> THEN <<>> ELSE ListOf(Head(raws), key) \o PushAll(Tail(raws), key)
\* The errors combineChunkResults throws: the designated one, or the
\* TypeError of item[idField] on a null list entry.
NoValidResults == "No valid results from any document sections"
NoError == ""
\* (CombineErrorNever: the test for an empty chunkResults left out.)
CombineErrorNever(chunkResults) == NoError
CombineError(chunkResults) ==
  IF Len(chunkResults) = 0 THEN NoValidResults
  ELSE IF \E n \in 1..Len(ListKeys) :
            \E m \in 1..Len(PushAll(Usable(chunkResults), ListKeys[n])) :
              PushAll(Usable(chunkResults), ListKeys[n])[m] = <<Null>>
    THEN "TypeError"
  ELSE NoError
combineChunkResults(chunkResults) ==
  transformSOC1Result(
    MkObject(<<
      <<"executiveSummary", FirstSummary(Usable(chunkResults))>>,
      <<"controlFailures",
        MkArray(removeDuplicates(PushAll(Usable(chunkResults), "controlFailures"), "id"))>>,
      <<"exclusions",
        MkArray(removeDuplicates(PushAll(Usable(chunkResults), "exclusions"), "id"))>>,
      <<"carveOuts",
        MkArray(removeDuplicates(PushAll(Usable(chunkResults), "carveOuts"), "id"))>> >>))

(***************************************************************************)
(* normalizeContent and safeStringify.  The envelope is the value that    *)
(* response.json() gave: a tree, in which no object is met twice, so the  *)
(* WeakSet test of the replacer never finds one.  A string value is       *)
(* written S(t) with t its characters (the strings of the envelopes hold  *)
(* no character that JSON escapes), a BigInt, which JSON.stringify        *)
(* refuses, BigInt(t).  No key of the envelopes is a number or occurs     *)
(* twice in an object.                                                     *)
(***************************************************************************)
BigInt(t) == <<[k |-> "bigint", t |-> t]>>
\* typeof v === 'string'
IsString(v) == Len(v) = 1 /\ v[1].k = "str"
\* !t.trim()
IsBlank(t) == \A k \in 1..Len(t) : SubSeq(t, k, k) \in {" ", "\n", "\t"}
\* v ?? d
Coalesce(v, d) == IF v \in {Undefined, <<Null>>} THEN d ELSE v
\* The <<key, value>> pairs of an object, in the order of its keys.
RECURSIVE MembersFrom(_, _)
MembersFrom(v, k) ==
  IF k > Len(v) \/ v[k] = RBrace THEN <<>>
  ELSE LET e == ValueEnd(v, k + 2) IN
       << <<v[k].t, SubSeq(v, k + 2, e - 1)>> >>
       \o MembersFrom(v, IF v[e] = Comma THEN e + 1 ELSE e)
Members(v) == IF IsObject(v) THEN MembersFrom(v, 2) ELSE <<>>
\* Object.keys(v).length > 0
HasKeys(v) ==
  IF IsObject(v) THEN Members(v) # <<>>
  ELSE IF IsArray(v) THEN Elements(v) # <<>>
  ELSE IsString(v) /\ Len(v[1].t) > 0

maxDepth == 3
MaxStringChars == 1000
MaxArrayItems == 100
Indent(level) == [k \in 1..(2 * level) |-> Sp]
\* JSON.stringify(obj, replacer, 2), property by property in the order of
\* the keys.  depth is the replacer's counter when the property is reached;
\* the result holds the text written, the counter afterwards, and whether
\* JSON.stringify threw.  The replacer raises the counter at every object
\* and array it lets through and never lowers it.
RECURSIVE DumpProperty(_, _, _), DumpEntries(_, _, _, _)
DumpEntries(entries, named, depth, level) ==
  IF entries = <<>> THEN [text |-> <<>>, depth |-> depth, thrown |-> FALSE]
  ELSE LET first == DumpProperty(entries[1][2], depth, level)
           rest == DumpEntries(Tail(entries), named, first.depth, level)
       IN  [text |-> Indent(level)
                     \o (IF named THEN <<S(entries[1][1]), Colon, Sp>> ELSE <<>>)
                     \o first.text
                     \o (IF Len(entries) > 1 THEN <<Comma>> ELSE <<>>)
                     \o <<Nl>> \o rest.text,
            depth |-> rest.depth,
            thrown |-> first.thrown \/ rest.thrown]
DumpProperty(value, depth, level) ==
  IF depth > maxDepth
  THEN [text |-> <<S("[Max Depth Reached]")>>, depth |-> depth, thrown |-> FALSE]
  ELSE IF IsObject(value) \/ IsArray(value)
    THEN LET entries ==
               IF IsObject(value) THEN Members(value)
               ELSE IF Len(Elements(value)) > MaxArrayItems
                 THEN [n \in 1..(MaxArrayItems + 1) |->
                         <<"", IF n <= MaxArrayItems THEN Elements(value)[n]
                               ELSE <<S("[Array Truncated - showing first 100 items]")>> >>]
               ELSE [n \in 1..Len(Elements(value)) |-> <<"", Elements(value)[n]>>]
             inner == DumpEntries(entries, IsObject(value), depth + 1, level + 1)
             open == IF IsObject(value) THEN LBrace ELSE LBrack
             close == IF IsObject(value) THEN RBrace ELSE RBrack
         IN  [text |-> IF entries = <<>> THEN <<open, close>>
                       ELSE <<open, Nl>> \o inner.text \o Indent(level) \o <<close>>,
              depth |-> inner.depth,
              thrown |-> inner.thrown]
  ELSE IF IsString(value) /\ Len(value[1].t) > MaxStringChars
    THEN [text |-> <<S(SubSeq(value[1].t, 1, MaxStringChars) \o "...[Truncated]")>>,
          depth |-> depth, thrown |-> FALSE]
  ELSE [text |-> value, depth |-> depth, thrown |-> value[1].k = "bigint"]
\* JSON.stringify threw (its TypeError is caught by safeStringify).
DumpThrows(obj) == DumpProperty(obj, 0, 0).thrown
safeStringify(obj) ==
  IF DumpThrows(obj)
  THEN "[Stringify Error: Do not know how to serialize a BigInt]"
  ELSE ConcatText(DumpProperty(obj, 0, 0).text)

\* The text safeStringify returns, in the lexemes of the parse stage.
StringifyErrorText ==
  <<LBrack, W("Stringify"), Sp, W("Error"), Colon, Sp, W("Do"), Sp, W("not"), Sp, W("know"),
    Sp, W("how"), Sp, W("to"), Sp, W("serialize"), Sp, W("a"), Sp, W("BigInt"), RBrack>>
DumpLexemes(obj) ==
  IF DumpThrows(obj) THEN StringifyErrorText ELSE DumpProperty(obj, 0, 0).text

\* payload?.choices?.[0] ?? {}  and  choice.message ?? {}
ChoiceOf(payload) ==
  Coalesce(IF Elements(Get(payload, "choices")) = <<>> THEN Undefined
           ELSE Elements(Get(payload, "choices"))[1], MkObject(<<>>))
MessageOf(payload) == Coalesce(Get(ChoiceOf(payload), "message"), MkObject(<<>>))
\* message.content.map(part => typeof part === 'string' ? part : part?.text ?? '').join('')
RECURSIVE JoinedParts(_)
JoinedParts(parts) ==
  IF parts = <<>> THEN ""
  ELSE (IF IsString(parts[1]) THEN parts[1][1].t
        ELSE JSString(Coalesce(Get(parts[1], "text"), Str(""))))
       \o JoinedParts(Tail(parts))
\* The text returned and the return statement that gave it.
\* (normalizeContentChoiceFirst: the content of the choice tried first.)
normalizeContentChoiceFirst(payload) ==
  LET message == MessageOf(payload)
      choice == ChoiceOf(payload)
  IN  IF IsString(Get(choice, "content")) /\ ~IsBlank(Get(choice, "content")[1].t)
      THEN [rule |-> "b", text |-> Get(choice, "content")[1].t]
      ELSE IF IsString(Get(message, "content")) /\ ~IsBlank(Get(message, "content")[1].t)
      THEN [rule |-> "a", text |-> Get(message, "content")[1].t]
      ELSE IF IsArray(Get(message, "content"))
              /\ ~IsBlank(JoinedParts(Elements(Get(message, "content"))))
      THEN [rule |-> "c", text |-> JoinedParts(Elements(Get(message, "content")))]
      ELSE IF Truthy(message) /\ HasKeys(message)
      THEN [rule |-> "d", text |-> safeStringify(message)]
      ELSE [rule |-> "e", text |-> safeStringify(payload)]
normalizeContent(payload) ==
  LET message == MessageOf(payload)
      choice == ChoiceOf(payload)
  IN  IF IsString(Get(message, "content")) /\ ~IsBlank(Get(message, "content")[1].t)
      THEN [rule |-> "a", text |-> Get(message, "content")[1].t]
      ELSE IF IsString(Get(choice, "content")) /\ ~IsBlank(Get(choice, "content")[1].t)
      THEN [rule |-> "b", text |-> Get(choice, "content")[1].t]
      ELSE IF IsArray(Get(message, "content"))
              /\ ~IsBlank(JoinedParts(Elements(Get(message, "content"))))
      THEN [rule |-> "c", text |-> JoinedParts(Elements(Get(message, "content")))]
      ELSE IF Truthy(message) /\ HasKeys(message)
      THEN [rule |-> "d", text |-> safeStringify(message)]
      ELSE [rule |-> "e", text |-> safeStringify(payload)]

(***************************************************************************)
(* Number arithmetic.  A JavaScript Number is an IEEE 754 double: every   *)
(* operation gives the exact result rounded to 53 significant bits, ties  *)
(* to even.  The Numbers of the progress reports are finite and not       *)
(* negative.  A Number is [m, e] with value m * 2^e, where m is a natural *)
(* number written as its bits, lowest first, 53 of them with the highest  *)
(* set; zero is [m |-> <<>>, e |-> 0].  Sums are carried ten bits at a     *)
(* time, which keeps every intermediate value a small integer.            *)
(***************************************************************************)
SignificandBits == 53
RECURSIVE NatBits(_)
NatBits(n) == IF n = 0 THEN <<>> ELSE <<n % 2>> \o NatBits(n \div 2)
Zeros(n) == [k \in 1..n |-> 0]
RECURSIVE StripHigh(_)
StripHigh(b) ==
  IF b # <<>> /\ b[Len(b)] = 0 THEN StripHigh(SubSeq(b, 1, Len(b) - 1)) ELSE b
\* columns[p] + 2 * columns[p + 1] + ... over the ten columns from p on.
RECURSIVE LimbAt(_, _, _)
LimbAt(columns, p, t) ==
  IF t = 10 \/ p > Len(columns) THEN 0
  ELSE columns[p] * 2^t + LimbAt(columns, p + 1, t + 1)
RECURSIVE CarriedLimbs(_, _, _)
CarriedLimbs(columns, j, carry) ==
  IF 10 * (j - 1) >= Len(columns) /\ carry = 0 THEN <<>>
  ELSE <<(LimbAt(columns, 10 * (j - 1) + 1, 0) + carry) % 1024>>
       \o CarriedLimbs(columns, j + 1, (LimbAt(columns, 10 * (j - 1) + 1, 0) + carry) \div 1024)
\* The bits of a natural written in digits of ten bits, lowest first.
Bits(limbs) ==
  [p \in 1..(10 * Len(limbs)) |-> (limbs[(p - 1) \div 10 + 1] \div 2^((p - 1) % 10)) % 2]
\* The bits of the natural whose k-th binary column (lowest first) adds up
\* to columns[k].
Carried(columns) == Bits(CarriedLimbs(columns, 1, 0))
AddBits(a, b) ==
  Carried([k \in 1..(IF Len(a) > Len(b) THEN Len(a) ELSE Len(b)) |->
             (IF k <= Len(a) THEN a[k] ELSE 0) + (IF k <= Len(b) THEN b[k] ELSE 0)])
MulBits(a, b) ==
  Carried([k \in 1..(Len(a) + Len(b)) |->
             Cardinality({j \in 1..Len(a) :
                            k + 1 - j \in 1..Len(b) /\ a[j] = 1 /\ b[k + 1 - j] = 1})])
\* a < b for two naturals written with the same number of bits.
LessBits(a, b) ==
  \E k \in 1..Len(a) : a[k] < b[k] /\ \A j \in (k + 1)..Len(a) : a[j] = b[j]

Zero == [m |-> <<>>, e |-> 0]
\* The Number nearest to bits * 2^e (+ a little, when inexact says that the
\* bits were cut off from a longer expansion), ties to even.
RoundedKept(kept, up) ==
  IF up THEN StripHigh(AddBits(kept, <<1>>)) ELSE kept
Rounded(bits, e, inexact) ==
  LET b == StripHigh(bits)
      drop == Len(b) - SignificandBits
  IN  IF b = <<>> THEN Zero
      ELSE IF drop <= 0 THEN [m |-> Zeros(-drop) \o b, e |-> e + drop]
      ELSE LET kept == SubSeq(b, drop + 1, Len(b))
               half == b[drop] = 1
               more == inexact \/ \E k \in 1..(drop - 1) : b[k] = 1
               sum == RoundedKept(kept, half /\ (more \/ kept[1] = 1))
           IN  IF Len(sum) > SignificandBits
               THEN [m |-> Tail(sum), e |-> e + drop + 1]
               ELSE [m |-> sum, e |-> e + drop]
FromNat(n) == Rounded(NatBits(n), 0, FALSE)

\* The first digits of r / d after the point (r < d) in digits of ten bits,
\* highest first, and what is left of r after them.
RECURSIVE FractionLimbs(_, _, _)
FractionLimbs(r, d, digits) ==
  IF digits = 0 THEN <<>>
  ELSE <<(1024 * r) \div d>> \o FractionLimbs((1024 * r) % d, d, digits - 1)
RECURSIVE FractionRest(_, _, _)
FractionRest(r, d, digits) ==
  IF digits = 0 THEN r ELSE FractionRest((1024 * r) % d, d, digits - 1)
Reversed(s) == [k \in 1..Len(s) |-> s[Len(s) + 1 - k]]
\* n / d for two naturals (d > 0) that are Numbers themselves: seventy bits
\* after the point are enough to round a quotient of at least 2^-15.
Divided(n, d) ==
  Rounded(Bits(Reversed(FractionLimbs(n % d, d, 7))) \o NatBits(n \div d),
          -70, FractionRest(n % d, d, 7) # 0)
\* x * y and x + y.
Times(x, y) == Rounded(MulBits(x.m, y.m), x.e + y.e, FALSE)
Plus(x, y) ==
  LET e == IF x.e < y.e THEN x.e ELSE y.e
  IN  Rounded(AddBits(Zeros(x.e - e) \o x.m, Zeros(y.e - e) \o y.m), e, FALSE)
\* x < y.
Less(x, y) ==
  /\ y.m # <<>>
  /\ \/ x.m = <<>>
     \/ x.e < y.e
     \/ x.e = y.e /\ LessBits(x.m, y.m)
\* a - b for two naturals written with the same number of digits, a >= b:
\* a digit borrows when the digits below it are less in a than in b.
Difference(a, b, radix) ==
  <<>> \o [k \in 1..Len(a) |->
            (a[k] - b[k] + radix
               - (IF \E j \in 1..(k - 1) :
                        a[j] < b[j] /\ \A h \in (j + 1)..(k - 1) : a[h] = b[h]
                  THEN 1 ELSE 0)) % radix]
Padded(b, n) == b \o Zeros(n - Len(b))
\* Math.abs(x - y).
Distance(x, y) ==
  LET e == IF x.e < y.e THEN x.e ELSE y.e
      a == Zeros(x.e - e) \o x.m
      b == Zeros(y.e - e) \o y.m
      n == IF Len(a) > Len(b) THEN Len(a) ELSE Len(b)
  IN  IF LessBits(Padded(a, n), Padded(b, n))
      THEN Rounded(Difference(Padded(b, n), Padded(a, n), 2), e, FALSE)
      ELSE Rounded(Difference(Padded(a, n), Padded(b, n), 2), e, FALSE)
\* A significand in six digits of ten bits, and twice a natural so written.
Limbs(bits) == <<>> \o [j \in 1..6 |-> LimbAt(bits, 10 * (j - 1) + 1, 0)]
Twice(a) ==
  <<>> \o [k \in 1..Len(a) |->
            ((2 * a[k]) % 1024) + (IF k > 1 /\ a[k - 1] >= 512 THEN 1 ELSE 0)]
\* The first bits of r / d after the point (r < d), highest first, and what
\* is left of r after them.
RECURSIVE QuotientBits(_, _, _, _)
QuotientBits(r, d, count, q) ==
  IF count = 0 THEN [q |-> q, r |-> r]
  ELSE LET twice == Twice(r)
       IN  IF LessBits(twice, d)
           THEN QuotientBits(twice, d, count - 1, q \o <<0>>)
           ELSE QuotientBits(Difference(twice, d, 1024), d, count - 1, q \o <<1>>)
\* x / y for y > 0: the quotient of the significands lies between 1/2 and 2,
\* and its bit before the point and 55 bits after it are enough to round it.
Quotient(x, y) ==
  IF x.m = <<>> THEN Zero
  ELSE LET whole == IF LessBits(x.m, y.m) THEN 0 ELSE 1
           first == IF whole = 1 THEN Difference(x.m, y.m, 2) ELSE x.m
           rest == QuotientBits(Limbs(first), Limbs(y.m), SignificandBits + 2, <<>>)
       IN  Rounded(Reversed(rest.q) \o <<whole>>, x.e - y.e - (SignificandBits + 2),
                   \E k \in 1..Len(rest.r) : rest.r[k] # 0)

(***************************************************************************)
(* PDFProcessor: the tables of a page.  A text item is [str, x, y, width,  *)
(* height], where x and y stand for transform[4] and transform[5]; the     *)
(* coordinates of the model are natural numbers, which are Numbers that    *)
(* add and subtract without rounding.                                      *)
(***************************************************************************)
TABLE_DETECTION_THRESHOLD == Divided(9, 10)
MIN_TABLE_ROWS == 3
MIN_TABLE_COLS == 3
yTolerance == 3
Abs(n) == IF n < 0 THEN -n ELSE n
Least(numbers) == CHOOSE n \in numbers : \A m \in numbers : n <= m
Greatest(numbers) == CHOOSE n \in numbers : \A m \in numbers : m <= n
RECURSIVE Flat(_)
Flat(lists) == IF lists = <<>> THEN <<>> ELSE Head(lists) \o Flat(Tail(lists))
RECURSIVE Total(_)
Total(numbers) == IF numbers = <<>> THEN 0 ELSE Head(numbers) + Total(Tail(numbers))
RECURSIVE JoinedBy(_, _)
JoinedBy(strings, separator) ==
  IF strings = <<>> THEN ""
  ELSE IF Len(strings) = 1 THEN strings[1]
  ELSE strings[1] \o separator \o JoinedBy(Tail(strings), separator)
RECURSIVE Decimal(_)
Decimal(n) ==
  IF n < 10 THEN <<"0", "1", "2", "3", "4", "5", "6", "7", "8", "9">>[n + 1]
  ELSE Decimal(n \div 10) \o Decimal(n % 10)
\* Array.prototype.sort, which is stable: an element goes behind the
\* elements that come before it in the order and behind the earlier ones of
\* those the order does not tell from it.
Sorted(s, Before(_, _)) ==
  <<>> \o [p \in 1..Len(s) |->
            s[CHOOSE k \in 1..Len(s) :
                Cardinality({j \in 1..Len(s) :
                               \/ Before(s[j], s[k])
                               \/ ~Before(s[k], s[j]) /\ j < k}) = p - 1]]

HasText(item) == ~IsBlank(item.str)
\* The first row whose first item lies within the tolerance of the item; 0
\* when there is none.
FoundRow(rows, item) ==
  LET similar == {k \in 1..Len(rows) :
                    Len(rows[k]) > 0 /\ Abs(item.y - rows[k][1].y) <= yTolerance}
  IN  IF similar = {} THEN 0 ELSE Least(similar)
RECURSIVE PlaceItems(_, _)
PlaceItems(textItems, rows) ==
  IF textItems = <<>> THEN rows
  ELSE PlaceItems(Tail(textItems),
                  IF FoundRow(rows, Head(textItems)) = 0
                  THEN Append(rows, <<Head(textItems)>>)
                  ELSE [rows EXCEPT ![FoundRow(rows, Head(textItems))] =
                                      Append(@, Head(textItems))])
UnsortedRows(rows) == rows
SortedRows(rows) == Sorted(rows, LAMBDA a, b : a[1].y > b[1].y)
groupTextItemsIntoRows(textItems) ==
  LET rows == SortedRows(PlaceItems(textItems, <<>>))
  IN  <<>> \o [r \in 1..Len(rows) |-> Sorted(rows[r], LAMBDA a, b : a.x < b.x)]

\* Math.abs(gap - avgGap) / avgGap < 0.5 for a gap of a row whose gaps,
\* count of them, add up to sum: not so when avgGap is 0, the quotient being
\* NaN then.
DeviationIsSmall(gap, sum, count) ==
  /\ sum # 0
  /\ Less(Quotient(Distance(FromNat(gap), Divided(sum, count)), Divided(sum, count)),
          Divided(1, 2))
\* consistentGaps / gaps.length >= TABLE_DETECTION_THRESHOLD.
EnoughConsistent(consistentGaps, count) ==
  ~Less(Divided(consistentGaps, count), TABLE_DETECTION_THRESHOLD)
\* The two tests as tables, worked out once for the gaps that the rows of
\* the model have: a row of the model holds at most two items more than the
\* longest kind of row, and none beyond the greatest x of a kind.
RowKinds ==
  {[xs |-> <<0, 4, 8>>, ys |-> <<3, 3, 3>>, blank |-> {}],
   [xs |-> <<1, 3, 5, 7>>, ys |-> <<3, 3, 3, 3>>, blank |-> {}],
   [xs |-> <<0, 2, 5>>, ys |-> <<3, 3, 3>>, blank |-> {}],
   [xs |-> <<0, 5, 7, 10>>, ys |-> <<3, 3, 3, 3>>, blank |-> {}],
   [xs |-> <<0, 1, 10>>, ys |-> <<3, 3, 3>>, blank |-> {}],
   [xs |-> <<0, 1, 4>>, ys |-> <<3, 3, 3>>, blank |-> {}],
   [xs |-> <<2, 7>>, ys |-> <<3, 3>>, blank |-> {}],
   [xs |-> <<3, 3, 3>>, ys |-> <<3, 3, 3>>, blank |-> {}],
   [xs |-> <<0, 4, 8>>, ys |-> <<3, 6, 0>>, blank |-> {}],
   [xs |-> <<0, 4, 8>>, ys |-> <<3, 3, 3>>, blank |-> {2}]}
SmallDeviations ==
  <<>> \o [count \in 1..(Greatest({Len(kind.xs) : kind \in RowKinds}) + 1) |->
            <<>> \o [sum \in 1..(Greatest({kind.xs[Len(kind.xs)] : kind \in RowKinds}) + 1) |->
                      <<>> \o [gap \in 1..sum |-> DeviationIsSmall(gap - 1, sum - 1, count)]]]
EnoughOf ==
  <<>> \o [count \in 1..Len(SmallDeviations) |->
            <<>> \o [consistentGaps \in 1..(count + 1) |->
                      EnoughConsistent(consistentGaps - 1, count)]]
HasSmallDeviation(gap, sum, count) ==
  IF count <= Len(SmallDeviations) /\ sum < Len(SmallDeviations[count])
  THEN SmallDeviations[count][sum + 1][gap + 1]
  ELSE DeviationIsSmall(gap, sum, count)
HasEnoughConsistent(consistentGaps, count) ==
  IF count <= Len(EnoughOf) THEN EnoughOf[count][consistentGaps + 1]
  ELSE EnoughConsistent(consistentGaps, count)
isTableRowOfAnyGaps(row) == Len(row) >= MIN_TABLE_COLS
isTableRowOfTwo(row) == Len(row) >= 2
isTableRow(row) ==
  IF Len(row) < MIN_TABLE_COLS THEN FALSE
  ELSE LET xPositions == [k \in 1..Len(row) |-> row[k].x]
           gaps == <<>> \o [k \in 1..(Len(row) - 1) |-> xPositions[k + 1] - xPositions[k]]
           sum == Total(gaps)
           consistentGaps ==
             Cardinality({k \in 1..Len(gaps) : HasSmallDeviation(gaps[k], sum, Len(gaps))})
       IN  IF Len(gaps) = 0 THEN FALSE
           ELSE HasEnoughConsistent(consistentGaps, Len(gaps))

\* The index j at which the while loop stops, counted from 1.
RunEndAtOnce(rows, j) == j + 1
RECURSIVE RunEnd(_, _)
RunEnd(rows, j) ==
  IF j <= Len(rows) /\ isTableRow(rows[j]) THEN RunEnd(rows, j + 1) ELSE j
\* The candidates pushed from the iteration on with index i, counted from 1.
SkipNone(i, j) == i + 1
Skip(i, j) == j
RECURSIVE DetectFrom(_, _)
DetectFrom(rows, i) ==
  IF i > Len(rows) - 1 THEN <<>>
  ELSE IF isTableRow(rows[i]) /\ isTableRow(rows[i + 1])
  THEN (IF RunEnd(rows, i + 1) - i >= MIN_TABLE_ROWS
        THEN <<[rows |-> SubSeq(rows, i, RunEnd(rows, i + 1) - 1),
                startIndex |-> i - 1,
                endIndex |-> RunEnd(rows, i + 1) - 2]>>
        ELSE <<>>)
       \o DetectFrom(rows, Skip(i, RunEnd(rows, i + 1)))
  ELSE DetectFrom(rows, i + 1)
detectTableStructures(rows) == DetectFrom(rows, 1)

NoTable == [null |-> TRUE]
firstCols(rows) == Len(rows[1])
maxCols(rows) == Greatest({0} \cup {Len(rows[r]) : r \in 1..Len(rows)})
Cell(item, rowIndex, colIndex) ==
  [text |-> item.str, x |-> item.x, y |-> item.y, width |-> item.width,
   height |-> item.height, row |-> rowIndex, col |-> colIndex]
createTableFromCandidate(candidate, pageNumber, index) ==
  IF Len(candidate.rows) = 0 THEN NoTable
  ELSE LET rows == candidate.rows
           allItems == Flat(rows)
           minX == Least({allItems[k].x : k \in 1..Len(allItems)})
           maxX == Greatest({allItems[k].x + allItems[k].width : k \in 1..Len(allItems)})
           minY == Least({allItems[k].y : k \in 1..Len(allItems)})
           maxY == Greatest({allItems[k].y : k \in 1..Len(allItems)})
       IN  [id |-> "table_" \o Decimal(pageNumber) \o "_" \o Decimal(index),
            pageNumber |-> pageNumber,
            x |-> minX,
            y |-> minY,
            width |-> maxX - minX,
            height |-> maxY - minY,
            rows |-> Len(rows),
            columns |-> maxCols(rows),
            cells |-> Flat([r \in 1..Len(rows) |->
                              [c \in 1..Len(rows[r]) |-> Cell(rows[r][c], r - 1, c - 1)]]),
            rawText |-> JoinedBy([r \in 1..Len(rows) |->
                                    JoinedBy([c \in 1..Len(rows[r]) |-> rows[r][c].str],
                                             "\t")],
                                 "\n")]
\* The tables pushed by the forEach of extractTablesFromPage from the
\* candidate with the given index on, counted from 0.
RECURSIVE AcceptedFrom(_, _, _)
AcceptedFrom(candidates, pageNumber, index) ==
  IF index >= Len(candidates) THEN <<>>
  ELSE LET table == createTableFromCandidate(candidates[index + 1], pageNumber, index)
       IN  (IF /\ table # NoTable
               /\ table.rows >= MIN_TABLE_ROWS
               /\ table.columns >= MIN_TABLE_COLS
            THEN <<table>> ELSE <<>>)
           \o AcceptedFrom(candidates, pageNumber, index + 1)

(***************************************************************************)
(* config.ts: validateConfig.                                              *)
(***************************************************************************)
ApiKeyRequired == "API key is required for OpenRouter"
EndpointRequired == "Local endpoint URL is required when using local models"
ModelNameRequired == "Local model name is required when using local models"
InvalidEndpoint == "Invalid local endpoint URL format"

\* new URL(url) without a base, for a url written with the characters below
\* (one-character strings): whether the constructor returns, FALSE where it
\* throws.
UrlLetters == {"a", "c", "h", "l", "o", "p", "s", "t", "v"}
UrlDigits == {"1", "3", "4"}
SpecialSchemes == {<<"h", "t", "t", "p">>}
\* The index of the first occurrence of the character in url from the given
\* index on, Len(url) + 1 when there is none.
RECURSIVE IndexFrom(_, _, _)
IndexFrom(url, character, from) ==
  IF from > Len(url) THEN Len(url) + 1
  ELSE IF url[from] = character THEN from
  ELSE IndexFrom(url, character, from + 1)
RECURSIVE WithoutLeadingSlashes(_)
WithoutLeadingSlashes(url) ==
  IF url # <<>> /\ url[1] = "/" THEN WithoutLeadingSlashes(Tail(url)) ELSE url
\* The authority is the text up to the first slash; its port, if any, is
\* written in digits; the host of a special scheme is not empty.
AuthorityParses(rest, special) ==
  LET authority == SubSeq(rest, 1, IndexFrom(rest, "/", 1) - 1)
      colon == IndexFrom(authority, ":", 1)
      host == SubSeq(authority, 1, colon - 1)
      port == SubSeq(authority, colon + 1, Len(authority))
  IN  /\ special => host # <<>>
      /\ \A k \in 1..Len(port) : port[k] \in UrlDigits
ParsesAsURL(url) ==
  LET colon == IndexFrom(url, ":", 1)
      scheme == SubSeq(url, 1, colon - 1)
      rest == SubSeq(url, colon + 1, Len(url))
  IN  /\ url # <<>>
      /\ url[1] \in UrlLetters
      /\ colon <= Len(url)
      /\ \A k \in 2..(colon - 1) : url[k] \in UrlLetters \union UrlDigits
      /\ IF scheme \in SpecialSchemes
         THEN AuthorityParses(WithoutLeadingSlashes(rest), TRUE)
         ELSE IF Len(rest) >= 2 /\ rest[1] = "/" /\ rest[2] = "/"
         THEN AuthorityParses(SubSeq(rest, 3, Len(rest)), FALSE)
         ELSE TRUE

\* validateConfig with the checks of the local endpoint made whatever
\* useLocalModel is.
validateConfigOfAllFields(config) ==
  LET errors ==
           (IF config.apiKey = "" /\ ~config.useLocalModel THEN <<ApiKeyRequired>> ELSE <<>>)
        \o (IF config.localEndpointUrl = <<>> THEN <<EndpointRequired>> ELSE <<>>)
        \o (IF config.localModelName = "" THEN <<ModelNameRequired>> ELSE <<>>)
        \o (IF ~ParsesAsURL(config.localEndpointUrl) THEN <<InvalidEndpoint>> ELSE <<>>)
  IN  [isValid |-> Len(errors) = 0, errors |-> errors]
validateConfig(config) ==
  LET errors ==
           (IF config.apiKey = "" /\ ~config.useLocalModel THEN <<ApiKeyRequired>> ELSE <<>>)
        \o (IF config.useLocalModel
            THEN    (IF config.localEndpointUrl = <<>> THEN <<EndpointRequired>> ELSE <<>>)
                 \o (IF config.localModelName = "" THEN <<ModelNameRequired>> ELSE <<>>)
                 \o (IF ~ParsesAsURL(config.localEndpointUrl) THEN <<InvalidEndpoint>> ELSE <<>>)
            ELSE <<>>)
  IN  [isValid |-> Len(errors) = 0, errors |-> errors]
NoValidation == [isValid |-> FALSE, errors |-> <<"no call">>]

(***************************************************************************)
(* State.                                                                  *)
(***************************************************************************)
VARIABLES
  config,        \* OpenRouterAPI.config: [useLocalModel], the whole APIConfig for validateConfig
  validation,    \* what validateConfig returned
  \* analyzeSingleChunk, parse stage
  wrap,          \* how the response text was put together: <<prefix, body, suffix>>
  content,       \* the normalized response text
  pc,            \* the position in the parse stage
  result,        \* the local variable result
  tried,         \* the stages entered so far, in the order they were entered
  yields,        \* what JSON.parse returned in the strategies where it succeeded
  source,        \* the stage that produced the value the record is built from
  outcome,       \* "pending", "returned" or "thrown"
  record,        \* the record returned
  \* splitTextIntoChunks
  text,          \* the argument text
  maxTokens,     \* the argument maxTokens
  finalChunks,   \* the chunks returned
  splitPc,       \* "call" before the call, "done" after it
  \* analyzeMultipleChunks
  pdfText,       \* the argument pdfText
  chunks,        \* the local variable chunks
  i,             \* the loop index, counted from 0
  outstanding,   \* the chunks whose remote call has been issued and has not completed
  chunkResults,  \* the local variable chunkResults
  chunkLog,      \* per chunk analysed: what analyzeSingleChunk did
  pushed,        \* per category, combined[key] before removeDuplicates
  multiPc,       \* "split", "loop" or "done"
  multiOutcome,  \* "pending", "returned" or "thrown"
  multiError,    \* the message of the error thrown
  combinedResult, \* the record returned
  \* analyzeSOC1Report, progress reports
  reportText,    \* the argument pdfText
  totalChunks,   \* the local variable totalChunks
  sectionIndex,  \* the loop index i, counted from 0
  resultCount,   \* chunkResults.length
  reportPc,      \* the position in analyzeSOC1Report and what it calls
  reportOutcome, \* "pending", "returned" or "thrown"
  progress,      \* the last two percents passed to onProgress, the older first
  \* normalizeContent
  payload,       \* the argument payload (the envelope)
  normalizePc,   \* "call" before the call, "done" after it
  normalized,    \* the text returned and the return statement it came from
  \* extractTablesFromPage
  textContent,   \* the argument textContent: [items]
  pageNumber,    \* the argument pageNumber
  textItems,     \* the local variable textItems
  rows,          \* the local variable rows
  tableCandidates, \* the local variable tableCandidates
  tables,        \* the tables returned
  extractPc      \* the position in extractTablesFromPage

parseVars == <<wrap, content, pc, result, tried, yields, source, outcome, record>>
splitVars == <<text, maxTokens, finalChunks, splitPc>>
multiVars == <<pdfText, chunks, i, outstanding, chunkResults, chunkLog, pushed, multiPc, multiOutcome,
               multiError, combinedResult>>
reportVars == <<reportText, totalChunks, sectionIndex, resultCount, reportPc, reportOutcome,
                progress>>
normalizeVars == <<payload, normalizePc, normalized>>
extractVars == <<textContent, pageNumber, textItems, rows, tableCandidates, tables, extractPc>>
vars == <<config, validation, parseVars, splitVars, multiVars, reportVars, normalizeVars, extractVars>>

NoPushed == [key \in {ListKeys[n] : n \in 1..Len(ListKeys)} |-> <<>>]
\* The parts of the state an analysis does not use stay as they are here.
ParseIdle ==
  /\ wrap = <<<<>>, <<>>, <<>>>>
  /\ content = <<>>
  /\ pc = "idle"
  /\ result = <<Null>>
  /\ tried = <<>>
  /\ yields = <<>>
  /\ source = "none"
  /\ outcome = "pending"
  /\ record = NoRecord
SplitIdle ==
  /\ text = <<>>
  /\ maxTokens = 0
  /\ finalChunks = <<>>
  /\ splitPc = "idle"
ReportIdle ==
  /\ reportText = <<>>
  /\ totalChunks = 0
  /\ sectionIndex = 0
  /\ resultCount = 0
  /\ reportPc = "idle"
  /\ reportOutcome = "pending"
  /\ progress = <<>>
NormalizeIdle ==
  /\ payload = <<>>
  /\ normalizePc = "idle"
  /\ normalized = [rule |-> "none", text |-> ""]
ExtractIdle ==
  /\ textContent = [items |-> <<>>]
  /\ pageNumber = 0
  /\ textItems = <<>>
  /\ rows = <<>>
  /\ tableCandidates = <<>>
  /\ tables = <<>>
  /\ extractPc = "idle"
MultiIdle ==
  /\ pdfText = <<>>
  /\ chunks = <<>>
  /\ i = 0
  /\ outstanding = {}
  /\ chunkResults = <<>>
  /\ chunkLog = <<>>
  /\ pushed = NoPushed
  /\ multiPc = "idle"
  /\ multiOutcome = "pending"
  /\ multiError = NoError
  /\ combinedResult = NoRecord

ParseInit ==
  /\ config \in [useLocalModel : BOOLEAN]
  /\ validation = NoValidation
  /\ wrap \in Prefixes \X Bodies \X Suffixes
  /\ content = wrap[1] \o wrap[2] \o wrap[3]
  /\ pc = "strategy1"
  /\ result = <<Null>>
  /\ tried = <<>>
  /\ yields = <<>>
  /\ source = "none"
  /\ outcome = "pending"
  /\ record = NoRecord
  /\ SplitIdle
  /\ MultiIdle
  /\ ReportIdle
  /\ NormalizeIdle
  /\ ExtractIdle

\* One structural strategy: entered (unless its guard skips it), result set
\* when its JSON.parse succeeds.
Step(stage, entered, parseText, next) ==
  /\ pc = stage
  /\ pc' = next
  /\ IF entered
     THEN /\ tried' = Append(tried, stage)
          /\ result' = ParseInto(parseText, result)
          /\ IF JSONParse(parseText) # ParseError
             THEN /\ yields' = Append(yields, [stage |-> stage, value |-> JSONParse(parseText)])
                  /\ source' = stage
             ELSE UNCHANGED <<yields, source>>
     ELSE UNCHANGED <<tried, result, yields, source>>
  /\ UNCHANGED <<config, validation, extractVars, reportVars, normalizeVars, wrap, content, outcome, record, splitVars, multiVars>>

TryStrategy1 == Step("strategy1", TRUE, Strategy1Text(content), "strategy2")
TryStrategy2 == Step("strategy2", NotResult(result), Strategy2Text(content), "strategy3")
TryStrategy3 == Step("strategy3", NotResult(result), Strategy3Text(content), "strategy4")
TryStrategy4 == Step("strategy4", NotResult(result), Strategy4Text(content), "strategy5")
TryStrategy5 ==
  Step("strategy5", NotResult(result) /\ config.useLocalModel, Strategy5Text(content), "branch")

\* return transformedResult, or the throw out of the catch block.
Return(aiResult) ==
  /\ pc' = "done"
  /\ outcome' = Finish(aiResult).outcome
  /\ record' = Finish(aiResult).record

\* if (result) { ... return } else { natural language ... }
Branch ==
  /\ pc = "branch"
  /\ IF ~NotResult(result)
     THEN Return(result)
     ELSE pc' = "naturalLanguage" /\ UNCHANGED <<outcome, record>>
  /\ UNCHANGED <<config, validation, extractVars, reportVars, normalizeVars, wrap, content, result, tried, yields, source, splitVars, multiVars>>

NaturalLanguage ==
  /\ pc = "naturalLanguage"
  /\ tried' = Append(tried, "naturalLanguage")
  /\ result' = extractFromNaturalLanguage(content)
  /\ IF Truthy(result')
     THEN source' = "naturalLanguage" /\ Return(result')
     ELSE pc' = "fallback" /\ UNCHANGED <<source, outcome, record>>
  /\ UNCHANGED <<config, validation, extractVars, reportVars, normalizeVars, wrap, content, yields, splitVars, multiVars>>

Fallback ==
  /\ pc = "fallback"
  /\ tried' = Append(tried, "fallback")
  /\ result' = createFallbackResult(content)
  /\ source' = "fallback"
  /\ Return(result')
  /\ UNCHANGED <<config, validation, extractVars, reportVars, normalizeVars, wrap, content, yields, splitVars, multiVars>>

ParseNext ==
  \/ TryStrategy1
  \/ TryStrategy2
  \/ TryStrategy3
  \/ TryStrategy4
  \/ TryStrategy5
  \/ Branch
  \/ NaturalLanguage
  \/ Fallback

SpecParse == ParseInit /\ [][ParseNext]_vars

\* The program does in steps what ParseStage computes.
StepsAgree ==
  pc = "done" =>
    /\ outcome = ParseStage(content, config.useLocalModel).outcome
    /\ record = ParseStage(content, config.useLocalModel).record

(***************************************************************************)
(* splitTextIntoChunks called on its own.                                  *)
(***************************************************************************)
MaxTextLen == 5
MaxTokens == 2
MaxParagraphs == 3
\* A paragraph / a sentence of len characters; the letter tells neighbouring
\* pieces apart.
Letters(len, n) == [k \in 1..len |-> IF n % 2 = 1 THEN "a" ELSE "b"]
\* n pieces, each of the given length, joined by the separator.
RECURSIVE Pieces(_, _, _)
Pieces(n, len, separator) ==
  IF n = 0 THEN <<>>
  ELSE IF n = 1 THEN Letters(len, n)
  ELSE Letters(len, n) \o separator \o Pieces(n - 1, len, separator)
\* Every text of up to MaxTextLen characters, and longer ones of whole
\* paragraphs or sentences, up to MaxParagraphs times the smallest budget,
\* and a paragraph after a first paragraph of one blank.
Texts ==
  UNION {[1..n -> Chars] : n \in 0..MaxTextLen}
  \cup {Pieces(n, len, ParagraphSeparator) : n \in 1..MaxParagraphs, len \in 1..CharsPerToken}
  \cup {Pieces(n, len, SentenceSeparator) : n \in 1..MaxParagraphs, len \in 1..CharsPerToken}
  \cup {<<" ">> \o ParagraphSeparator \o Pieces(1, len, ParagraphSeparator) : len \in 1..CharsPerToken}

SplitInit ==
  /\ config \in [useLocalModel : BOOLEAN]
  /\ validation = NoValidation
  /\ text \in Texts
  /\ maxTokens \in 1..MaxTokens
  /\ finalChunks = <<>>
  /\ splitPc = "call"
  /\ ParseIdle
  /\ MultiIdle
  /\ ReportIdle
  /\ NormalizeIdle
  /\ ExtractIdle

SplitText ==
  /\ splitPc = "call"
  /\ finalChunks' = splitTextIntoChunks(text, maxTokens)
  /\ splitPc' = "done"
  /\ UNCHANGED <<config, validation, extractVars, reportVars, normalizeVars, text, maxTokens, parseVars, multiVars>>

SplitNext == SplitText

SpecSplit == SplitInit /\ [][SplitNext]_vars

(***************************************************************************)
(* analyzeMultipleChunks: split, the loop over the chunks, the merge.      *)
(***************************************************************************)
MaxChunks == 3
\* maxTokens of the split (25000 in the program; the report texts of the
\* model are measured in budgets, so the scale does not matter).
ChunkTokens == 1
\* A report of n paragraphs of one budget each; a report of blanks only.
Report(n) == Pieces(n, ChunkTokens * CharsPerToken, ParagraphSeparator)
Reports == {Report(n) : n \in 0..MaxChunks} \cup {<<" ", "\n", "\n", " ">>}

\* How analyzeSingleChunk fails before the parse stage: fetch rejects, the
\* status is not ok, the response holds no choices.
TransportFailures == {"network", "http", "noChoices"}
Exclusion(id, description) ==
  MkObject(<< <<"id", Str(id)>>, <<"description", Str(description)>> >>)
\* The response texts of the chunks.
Responses ==
  { <<W("word")>>,
    MkObject(<< <<"controlFailures", MkArray(<< <<Null>> >>)>> >>),
    MkObject(<< <<"executiveSummary", Str("")>>,
                <<"exclusions", MkArray(<<Exclusion("EX-1", "first"),
                                          MkObject(<< <<"description", Str("unnamed")>> >>)>>)>> >>),
    MkObject(<< <<"executiveSummary", MkObject(<< <<"auditor", Str("Acme")>> >>)>>,
                <<"exclusions", MkArray(<<Exclusion("EX-1", "second"), Exclusion("EX-2", "second"),
                                          MkObject(<< <<"description", Str("nameless")>> >>)>>)>>,
                <<"carveOuts", MkArray(<<Exclusion("EX-1", "carved")>>)>> >>),
    MkObject(<< <<"executiveSummary", MkObject(<< <<"auditor", Str("Bolt")>> >>)>>,
                <<"controlFailures", MkArray(<<Exclusion("CO-1", "third"), Exclusion("CO-1", "fourth")>>)>> >>) }

MultiInit ==
  /\ config \in [useLocalModel : BOOLEAN]
  /\ validation = NoValidation
  /\ pdfText \in Reports
  /\ chunks = <<>>
  /\ i = 0
  /\ outstanding = {}
  /\ chunkResults = <<>>
  /\ chunkLog = <<>>
  /\ pushed = NoPushed
  /\ multiPc = "split"
  /\ multiOutcome = "pending"
  /\ multiError = NoError
  /\ combinedResult = NoRecord
  /\ ParseIdle
  /\ SplitIdle
  /\ ReportIdle
  /\ NormalizeIdle
  /\ ExtractIdle

\* const chunks = this.splitTextIntoChunks(pdfText, 25000)
MultiSplit ==
  /\ multiPc = "split"
  /\ chunks' = splitTextIntoChunks(pdfText, ChunkTokens)
  /\ multiPc' = "loop"
  /\ UNCHANGED <<config, validation, extractVars, reportVars, normalizeVars, pdfText, i, outstanding, chunkResults, chunkLog, pushed,
                 multiOutcome, multiError, combinedResult, parseVars, splitVars>>

\* await this.analyzeSingleChunk(chunk, ...): the chunks whose remote call the
\* loop may issue next.  The loop is suspended while a call is in flight.
\* (NextCallsUnawaited: the loop goes on without awaiting the call.)
NextCallsUnawaited == {k \in i..(Len(chunks) - 1) : k \notin outstanding}
NextCalls == IF outstanding = {} THEN {k \in {i} : k < Len(chunks)} ELSE {}
\* One pass of the loop up to the fetch of analyzeSingleChunk.
ChunkCall ==
  /\ multiPc = "loop"
  /\ \E k \in NextCalls : outstanding' = outstanding \cup {k}
  /\ UNCHANGED <<config, validation, extractVars, reportVars, normalizeVars, pdfText, chunks, i, chunkResults, chunkLog, pushed, multiPc,
                 multiOutcome, multiError, combinedResult, parseVars, splitVars>>

\* The rest of a pass in which analyzeSingleChunk throws before it has a
\* response text: the catch logs it and the loop goes on.
ChunkTransportFails ==
  /\ multiPc = "loop"
  /\ i \in outstanding
  /\ outstanding' = outstanding \ {i}
  /\ \E failure \in TransportFailures :
       chunkLog' = Append(chunkLog, [chunk |-> i, ok |-> FALSE, why |-> failure,
                                     rawResult |-> Undefined])
  /\ i' = i + 1
  /\ UNCHANGED <<config, validation, extractVars, reportVars, normalizeVars, pdfText, chunks, chunkResults, pushed, multiPc, multiOutcome,
                 multiError, combinedResult, parseVars, splitVars>>

\* The rest of a pass in which the model responds: the parse stage returns
\* a record, which is pushed, or throws, which the catch logs.
ChunkResponds ==
  /\ multiPc = "loop"
  /\ i \in outstanding
  /\ outstanding' = outstanding \ {i}
  /\ \E response \in Responses :
       LET parsed == ParseStage(response, config.useLocalModel) IN
       IF parsed.outcome = "returned"
       THEN /\ chunkResults' = Append(chunkResults, parsed.record)
            /\ chunkLog' = Append(chunkLog, [chunk |-> i, ok |-> TRUE, why |-> "returned",
                                            rawResult |-> parsed.record.rawResult])
       ELSE /\ chunkResults' = chunkResults
            /\ chunkLog' = Append(chunkLog, [chunk |-> i, ok |-> FALSE, why |-> "parse",
                                            rawResult |-> Undefined])
  /\ i' = i + 1
  /\ UNCHANGED <<config, validation, extractVars, reportVars, normalizeVars, pdfText, chunks, pushed, multiPc, multiOutcome, multiError,
                 combinedResult, parseVars, splitVars>>

\* After the loop: combineChunkResults, whose error the outer catch rethrows.
Combine ==
  /\ multiPc = "loop"
  /\ i = Len(chunks)
  /\ outstanding = {}
  /\ multiPc' = "done"
  /\ IF CombineError(chunkResults) # NoError
     THEN /\ multiOutcome' = "thrown"
          /\ multiError' = CombineError(chunkResults)
          /\ UNCHANGED <<pushed, combinedResult>>
     ELSE /\ multiOutcome' = "returned"
          /\ multiError' = NoError
          /\ pushed' = [key \in DOMAIN pushed |-> PushAll(Usable(chunkResults), key)]
          /\ combinedResult' = combineChunkResults(chunkResults)
  /\ UNCHANGED <<config, validation, extractVars, reportVars, normalizeVars, pdfText, chunks, i, outstanding, chunkResults, chunkLog,
                 parseVars, splitVars>>

MultiNext ==
  \/ MultiSplit
  \/ ChunkCall
  \/ ChunkTransportFails
  \/ ChunkResponds
  \/ Combine

SpecMulti == MultiInit /\ [][MultiNext]_vars

(***************************************************************************)
(* analyzeSOC1Report: the percents passed to onProgress.  What the model  *)
(* answers does not matter here, only how far each call gets.             *)
(***************************************************************************)
MaxSections == 9
\* The reports: of one to MaxSections paragraphs of a budget each, a blank
\* one, and one of a single word longer than the budget.
ReportTexts ==
  {Report(n) : n \in 1..MaxSections}
  \cup {[k \in 1..(ChunkTokens * CharsPerToken + 1) |-> c] : c \in {" ", "a"}}
\* Math.ceil(pdfText.length / 4) <= maxTokensPerChunk
SingleCall == (Len(reportText) + 3) \div 4 <= ChunkTokens
\* 15 + ((i / totalChunks) * 70)
progressPercent == Plus(FromNat(15), Times(Divided(sectionIndex, totalChunks), FromNat(70)))
\* progressPercent + ((chunkProgress / 100) * (70 / totalChunks))
chunkProgressPercent(chunkProgress) ==
  Plus(progressPercent, Times(Divided(chunkProgress, 100), Divided(70, totalChunks)))
\* The percent the caller's onProgress gets when analyzeSingleChunk reports
\* chunkProgress: as it is for a report analysed in one call, through the
\* callback of the loop for a section.
Reported(chunkProgress) ==
  IF SingleCall THEN FromNat(chunkProgress) ELSE chunkProgressPercent(chunkProgress)
\* onProgress?.(percent, message)
onProgress(percent) ==
  progress' = IF progress = <<>> THEN <<percent>> ELSE <<progress[Len(progress)], percent>>

ReportInit ==
  /\ config \in [useLocalModel : BOOLEAN]
  /\ validation = NoValidation
  /\ reportText \in ReportTexts
  /\ totalChunks = 0
  /\ sectionIndex = 0
  /\ resultCount = 0
  /\ reportPc = "start"
  /\ reportOutcome = "pending"
  /\ progress = <<>>
  /\ ParseIdle
  /\ SplitIdle
  /\ MultiIdle
  /\ NormalizeIdle
  /\ ExtractIdle

\* analyzeSOC1Report up to the call of analyzeSingleChunk or analyzeMultipleChunks.
Prepare ==
  /\ reportPc = "start"
  /\ onProgress(FromNat(5))
  /\ reportPc' = IF SingleCall THEN "prepare" ELSE "split"
  /\ UNCHANGED <<config, validation, extractVars, normalizeVars, reportText, totalChunks, sectionIndex, resultCount, reportOutcome,
                 parseVars, splitVars, multiVars>>

\* analyzeMultipleChunks: the first report and the split.
SplitDocument ==
  /\ reportPc = "split"
  /\ onProgress(FromNat(10))
  /\ totalChunks' = Len(splitTextIntoChunks(reportText, ChunkTokens))
  /\ reportPc' = "announce"
  /\ UNCHANGED <<config, validation, extractVars, normalizeVars, reportText, sectionIndex, resultCount, reportOutcome,
                 parseVars, splitVars, multiVars>>

AnnounceSections ==
  /\ reportPc = "announce"
  /\ onProgress(FromNat(15))
  /\ reportPc' = "loop"
  /\ UNCHANGED <<config, validation, extractVars, normalizeVars, reportText, totalChunks, sectionIndex, resultCount, reportOutcome,
                 parseVars, splitVars, multiVars>>

\* The head of one pass of the loop.
SectionStart ==
  /\ reportPc = "loop"
  /\ sectionIndex < totalChunks
  /\ onProgress(progressPercent)
  /\ reportPc' = "prepare"
  /\ UNCHANGED <<config, validation, extractVars, normalizeVars, reportText, totalChunks, sectionIndex, resultCount, reportOutcome,
                 parseVars, splitVars, multiVars>>

\* analyzeSingleChunk: a report and the step after it.
ChunkStep(at, chunkProgress, next) ==
  /\ reportPc = at
  /\ onProgress(Reported(chunkProgress))
  /\ reportPc' = next
  /\ UNCHANGED <<config, validation, extractVars, normalizeVars, reportText, totalChunks, sectionIndex, resultCount, reportOutcome,
                 parseVars, splitVars, multiVars>>
ChunkPrepare == ChunkStep("prepare", 10, "send")
ChunkSend == ChunkStep("send", 30, "fetch")
ChunkResponse == ChunkStep("fetch", 70, "response")
ChunkData == ChunkStep("response", 90, "parse")

\* analyzeSingleChunk ends: its caller returns its record or rethrows its
\* error, the loop pushes the record or logs the error and goes on.
ChunkEnds(returned) ==
  IF SingleCall
  THEN /\ reportPc' = "done"
       /\ reportOutcome' = IF returned THEN "returned" ELSE "thrown"
       /\ UNCHANGED <<sectionIndex, resultCount>>
  ELSE /\ reportPc' = "loop"
       /\ sectionIndex' = sectionIndex + 1
       /\ resultCount' = IF returned THEN resultCount + 1 ELSE resultCount
       /\ UNCHANGED reportOutcome
ChunkReturns ==
  /\ reportPc = "parse"
  /\ onProgress(Reported(100))
  /\ ChunkEnds(TRUE)
  /\ UNCHANGED <<config, validation, extractVars, normalizeVars, reportText, totalChunks, parseVars, splitVars, multiVars>>
\* fetch rejects, the response is not ok or has no choices, or the parse
\* stage throws.
ChunkThrows ==
  /\ reportPc \in {"fetch", "response", "parse"}
  /\ ChunkEnds(FALSE)
  /\ UNCHANGED <<config, validation, extractVars, normalizeVars, reportText, totalChunks, progress, parseVars, splitVars, multiVars>>

\* After the loop.
Combining ==
  /\ reportPc = "loop"
  /\ sectionIndex = totalChunks
  /\ onProgress(FromNat(90))
  /\ reportPc' = "combine"
  /\ UNCHANGED <<config, validation, extractVars, normalizeVars, reportText, totalChunks, sectionIndex, resultCount, reportOutcome,
                 parseVars, splitVars, multiVars>>
\* combineChunkResults throws when no section gave a record.
Complete ==
  /\ reportPc = "combine"
  /\ reportPc' = "done"
  /\ IF resultCount = 0
     THEN reportOutcome' = "thrown" /\ UNCHANGED progress
     ELSE reportOutcome' = "returned" /\ onProgress(FromNat(100))
  /\ UNCHANGED <<config, validation, extractVars, normalizeVars, reportText, totalChunks, sectionIndex, resultCount,
                 parseVars, splitVars, multiVars>>

ReportNext ==
  \/ Prepare
  \/ SplitDocument
  \/ AnnounceSections
  \/ SectionStart
  \/ ChunkPrepare
  \/ ChunkSend
  \/ ChunkResponse
  \/ ChunkData
  \/ ChunkReturns
  \/ ChunkThrows
  \/ Combining
  \/ Complete

SpecReport == ReportInit /\ [][ReportNext]_vars

(***************************************************************************)
(* normalizeContent called on an envelope with at least one choice.       *)
(***************************************************************************)
\* message.content: absent, null, blank or not, an array of parts.
Contents ==
  { Undefined, <<Null>>, Str(""), Str("  "), Str("text"), MkArray(<<>>),
    MkArray(<<Str("part "), MkObject(<< <<"type", Str("text")>>, <<"text", Str("one")>> >>)>>),
    MkArray(<<MkObject(<< <<"type", Str("image")>> >>), <<Null>>, Num("1")>>),
    MkArray(<<MkObject(<< <<"text", Num("2")>> >>), MkObject(<< <<"text", <<Null>>>> >>)>>) }
ChoiceContents == {Undefined, Str(""), Str("alt")}
\* The other members of the message: none, a role, a tool call four levels
\* deep, three empty objects before the role, a BigInt, a list of the schema
\* with a finding, a list of the schema with a null entry.
Extras ==
  { <<>>,
    << <<"role", Str("assistant")>> >>,
    << <<"role", Str("")>> >>,
    << <<"tool_calls",
         MkArray(<<MkObject(<< <<"function",
           MkObject(<< <<"arguments", MkObject(<< <<"a", Num("1")>> >>)>> >>)>> >>)>>)>> >>,
    << <<"a", MkObject(<<>>)>>, <<"b", MkObject(<<>>)>>, <<"c", MkObject(<<>>)>>,
       <<"role", Str("assistant")>> >>,
    << <<"logprob", BigInt("10")>> >>,
    << <<"exclusions", MkArray(<<ExclusionEX1>>)>> >>,
    << <<"controlFailures", MkArray(<< <<Null>> >>)>> >> }
Member(key, value) == IF value = Undefined THEN <<>> ELSE << <<key, value>> >>
Envelope(choice, model) ==
  MkObject(<< <<"choices", MkArray(<<choice>>)>> >> \o Member("model", model))
Envelopes ==
  { Envelope(MkObject(Member("message", MkObject(Member("content", c) \o x))
                      \o Member("content", cc)), model) :
      c \in Contents, x \in Extras, cc \in ChoiceContents, model \in {Undefined, Str("m")} }
  \cup { Envelope(choice, Undefined) :
           choice \in { <<Null>>, Str("choice"),
                        MkObject(Member("message", <<Null>>)),
                        MkObject(Member("message", Str("hello"))),
                        MkObject(Member("message", Str(""))),
                        MkObject(Member("message", MkArray(<<Num("1")>>))) } }

NormalizeInit ==
  /\ config \in [useLocalModel : BOOLEAN]
  /\ validation = NoValidation
  /\ payload \in Envelopes
  /\ normalizePc = "call"
  /\ normalized = [rule |-> "none", text |-> ""]
  /\ ParseIdle
  /\ SplitIdle
  /\ MultiIdle
  /\ ReportIdle
  /\ ExtractIdle

\* const content = normalizeContent(data).  No statement of its try block
\* throws on a parsed envelope (every property read is guarded and
\* safeStringify catches what JSON.stringify throws), so its catch, which
\* returns '', is never entered.
Normalize ==
  /\ normalizePc = "call"
  /\ normalized' = normalizeContent(payload)
  /\ normalizePc' = "done"
  /\ UNCHANGED <<config, validation, extractVars, payload, parseVars, splitVars, multiVars, reportVars>>

\* The parse stage that follows, for a dump: content is what safeStringify
\* returned for the message (rule d) or for the envelope (rule e).  (The
\* texts of rules a to c are the response texts of SpecParse.)
ParseDump ==
  /\ normalizePc = "done"
  /\ normalized.rule \in {"d", "e"}
  /\ pc = "idle"
  /\ content' = DumpLexemes(IF normalized.rule = "d" THEN MessageOf(payload) ELSE payload)
  /\ pc' = "strategy1"
  /\ UNCHANGED <<config, validation, extractVars, normalizeVars, wrap, result, tried, yields, source,
                 outcome, record, splitVars, multiVars, reportVars>>

NormalizeNext ==
  \/ Normalize
  \/ ParseDump
  \/ TryStrategy1
  \/ TryStrategy2
  \/ TryStrategy3
  \/ TryStrategy4
  \/ TryStrategy5
  \/ Branch
  \/ NaturalLanguage
  \/ Fallback

SpecNormalize == NormalizeInit /\ [][NormalizeNext]_vars

(***************************************************************************)
(* SpecExtract: PDFProcessor.extractTablesFromPage on one page.  The rows  *)
(* of a page of the model lie five apart, the first one on top; a row is   *)
(* one of the kinds below, given as the x of its items, what each y adds   *)
(* to the y of the row, and which items (counted from the left) hold a     *)
(* blank.  The items arrive row by row, in the opposite order, or in the   *)
(* order of their x.                                                       *)
(***************************************************************************)
MaxPageRows == 4
MaxRunRows == 7
\* The pages: at most MaxPageRows rows of at most two kinds, and more rows,
\* at most MaxRunRows, each of three evenly spaced items or of two items.
PageKinds ==
  UNION ({{[k \in 1..n |-> IF k \in chosen THEN one ELSE other] :
             one \in RowKinds, other \in RowKinds, chosen \in SUBSET (1..n)} :
          n \in 0..MaxPageRows}
         \cup {{[k \in 1..n |->
                  IF k \in chosen THEN [xs |-> <<0, 4, 8>>, ys |-> <<3, 3, 3>>, blank |-> {}]
                  ELSE [xs |-> <<2, 7>>, ys |-> <<3, 3>>, blank |-> {}]] :
                 chosen \in SUBSET (1..n)} :
               n \in (MaxPageRows + 1)..MaxRunRows})
RowItems(kind, k, n) ==
  [c \in 1..Len(kind.xs) |->
     [str |-> IF c \in kind.blank THEN " " ELSE "r" \o Decimal(k) \o "c" \o Decimal(c),
      x |-> kind.xs[c],
      y |-> 5 * (n - k) + kind.ys[c],
      width |-> 2,
      height |-> 1]]
PageItems(kinds) == Flat([k \in 1..Len(kinds) |-> RowItems(kinds[k], k, Len(kinds))])
Arrivals(items) ==
  {items, Reversed(items), Sorted(items, LAMBDA a, b : a.x < b.x)}

ExtractInit ==
  /\ config = [useLocalModel |-> FALSE]
  /\ validation = NoValidation
  /\ ParseIdle
  /\ SplitIdle
  /\ MultiIdle
  /\ ReportIdle
  /\ NormalizeIdle
  /\ \E kinds \in PageKinds : \E items \in Arrivals(PageItems(kinds)) :
       textContent = [items |-> items]
  /\ pageNumber = 1
  /\ textItems = <<>>
  /\ rows = <<>>
  /\ tableCandidates = <<>>
  /\ tables = <<>>
  /\ extractPc = "filter"

\* :384, const textItems = textContent.items.filter(...)
FilterItems ==
  /\ extractPc = "filter"
  /\ textItems' = SelectSeq(textContent.items, HasText)
  /\ extractPc' = "filtered"
  /\ UNCHANGED <<config, validation, parseVars, splitVars, multiVars, reportVars, normalizeVars,
                 textContent, pageNumber, rows, tableCandidates, tables>>
\* :386-388, if (textItems.length === 0) return []
ReturnNoTables ==
  /\ extractPc = "filtered"
  /\ Len(textItems) = 0
  /\ tables' = <<>>
  /\ extractPc' = "returned"
  /\ UNCHANGED <<config, validation, parseVars, splitVars, multiVars, reportVars, normalizeVars,
                 textContent, pageNumber, textItems, rows, tableCandidates>>
\* :391, const rows = this.groupTextItemsIntoRows(textItems)
GroupRows ==
  /\ extractPc = "filtered"
  /\ Len(textItems) # 0
  /\ rows' = groupTextItemsIntoRows(textItems)
  /\ extractPc' = "grouped"
  /\ UNCHANGED <<config, validation, parseVars, splitVars, multiVars, reportVars, normalizeVars,
                 textContent, pageNumber, textItems, tableCandidates, tables>>
\* :394, const tableCandidates = this.detectTableStructures(rows)
DetectStructures ==
  /\ extractPc = "grouped"
  /\ tableCandidates' = detectTableStructures(rows)
  /\ extractPc' = "detected"
  /\ UNCHANGED <<config, validation, parseVars, splitVars, multiVars, reportVars, normalizeVars,
                 textContent, pageNumber, textItems, rows, tables>>
\* :397-405, the forEach over the candidates and the return
CreateTables ==
  /\ extractPc = "detected"
  /\ tables' = AcceptedFrom(tableCandidates, pageNumber, 0)
  /\ extractPc' = "returned"
  /\ UNCHANGED <<config, validation, parseVars, splitVars, multiVars, reportVars, normalizeVars,
                 textContent, pageNumber, textItems, rows, tableCandidates>>

ExtractNext ==
  \/ FilterItems
  \/ ReturnNoTables
  \/ GroupRows
  \/ DetectStructures
  \/ CreateTables
SpecExtract == ExtractInit /\ [][ExtractNext]_vars

(***************************************************************************)
(* validateConfig (SpecValidate): one call on one configuration.           *)
(***************************************************************************)
\* 'http://localhost:11434/v1', the endpoint of DEFAULT_CONFIG and of the test
DefaultEndpoint ==
  <<"h", "t", "t", "p", ":", "/", "/", "l", "o", "c", "a", "l", "h", "o", "s", "t", ":",
    "1", "1", "4", "3", "4", "/", "v", "1">>
EndpointUrls ==
  { <<>>,
    DefaultEndpoint,
    <<"h", "t", "t", "p", ":", "/", "/", "l">>,
    <<"h", "t", "t", "p", ":", "/", "/">>,
    <<"h", "t", "t", "p", ":">>,
    <<"h", "t", "t", "p", ":", "l">>,
    <<"h", "t", "t", "p", ":", "/", "/", "/", "l">>,
    <<"h", "t", "t", "p", ":", "/", "/", "l", ":", "v">>,
    <<"h", "t", "t", "p", ":", "/", "/", ":", "1">>,
    <<"h", "t", "t", "p">>,
    <<"l", "o", "c", "a", "l", "h", "o", "s", "t", ":", "1", "1", "4", "3", "4">>,
    <<"l", "o", "c", "a", "l", "h", "o", "s", "t">>,
    <<"/", "v", "1">>,
    <<"/", "/", "l">>,
    <<"1", "l", ":">>,
    <<"l", ":", "/", "/">>,
    <<"l", ":", "/", "/", "h", ":", "v">> }
ApiKeys == {"", "valid-key", " "}
ModelNames == {"", "llama3.1:8b"}
APIConfigs ==
  [useLocalModel : BOOLEAN, apiKey : ApiKeys, localEndpointUrl : EndpointUrls,
   localModelName : ModelNames]

ValidateInit ==
  /\ config \in APIConfigs
  /\ validation = NoValidation
  /\ ParseIdle /\ SplitIdle /\ MultiIdle /\ ReportIdle /\ NormalizeIdle /\ ExtractIdle

Validate ==
  /\ validation = NoValidation
  /\ validation' = validateConfig(config)
  /\ UNCHANGED <<config, parseVars, splitVars, multiVars, reportVars, normalizeVars, extractVars>>

ValidateNext == Validate
SpecValidate == ValidateInit /\ [][ValidateNext]_vars

(***************************************************************************)
(* Properties of the parse stage (SpecParse).                             *)
(***************************************************************************)
Returned == pc = "done" /\ outcome = "returned"
Findings == {record.findings[n] : n \in 1..Len(record.findings)}
SummaryFields == <<"reportPeriod", "serviceOrganization", "auditor", "opinion">>

\* C1: for every response text and either value of the local-model flag the
\* parse stage returns a record; no error of the parse stage is thrown to the
\* caller.
C1_ParseStageNeverThrows == outcome # "thrown"

\* The text has no recognizable structure: no brace, no fence, no lexeme in
\* which a natural-language pattern finds its label or keyword.
NoStructure(c) ==
  \A n \in 1..Len(c) :
    /\ c[n] \notin {LBrace, RBrace, Fence}
    /\ \A e \in LabelTable : e.lex # c[n]
\* The whole text is a JSON value that if (result) accepts.
TruthyJSON(c) == JSONParse(c) # ParseError /\ Truthy(JSONParse(c))

C3_WrappedObjectRoundTrip ==
  (pc = "done" /\ IsObject(JSONParse(wrap[2]))) =>
    /\ outcome = "returned"
    /\ record = transformSOC1Result(JSONParse(wrap[2]))

\* C4: the stages are entered in the fixed order strategy 1, 2, 3, 4, 5 (5 only
\* for a local model), then natural language, then fallback; once a strategy
\* has yielded a JSON object no later stage is entered, and the record
\* returned is built from that object.
StageOrder ==
  <<"strategy1", "strategy2", "strategy3", "strategy4", "strategy5",
    "naturalLanguage", "fallback">>
StageIndex(stage) == CHOOSE n \in 1..Len(StageOrder) : StageOrder[n] = stage
ObjectYields == {n \in 1..Len(yields) : IsObject(yields[n].value)}
C4_FirstObjectWins ==
  /\ \A p \in 1..Len(tried) : tried[p] \in {StageOrder[n] : n \in 1..Len(StageOrder)}
  /\ \A p, q \in 1..Len(tried) : p < q => StageIndex(tried[p]) < StageIndex(tried[q])
  /\ \A p \in 1..Len(tried) :
       StageIndex(tried[p]) <= 4 => \A n \in 1..StageIndex(tried[p]) : StageOrder[n] = tried[n]
  /\ (\E p \in 1..Len(tried) : tried[p] = "strategy5") => config.useLocalModel
  /\ ObjectYields # {} =>
       LET first == yields[CHOOSE n \in ObjectYields : \A m \in ObjectYields : n <= m] IN
       /\ tried[Len(tried)] = first.stage
       /\ source = first.stage
       /\ result = first.value
       /\ Returned => record = transformSOC1Result(first.value)
C4_Witness ==
  /\ Returned
  /\ source = "strategy3"
  /\ tried = <<"strategy1", "strategy2", "strategy3">>
  /\ record.rawResult = JSONParse(wrap[2])
  /\ record.findings # <<>>

\* C5: every record returned is schema-complete: it holds the executive summary
\* with its four fields, and every finding holds every field.
FindingFields(f) ==
  <<f.attributeName, f.description, f.value, f.pageNumbers, f.confidence>>
C5_SchemaComplete ==
  Returned =>
    /\ \E f \in Findings :
         /\ f.category = "Executive Summary"
         /\ \A n \in 1..Len(SummaryFields) : Get(f.value, SummaryFields[n]) # Undefined
    /\ \A f \in Findings : \A n \in 1..5 : FindingFields(f)[n] # Undefined

(***************************************************************************)
(* Properties of the multi-chunk analysis (SpecMulti).                    *)
(***************************************************************************)
MultiReturned == multiPc = "done" /\ multiOutcome = "returned"
Succeeded == {n \in 1..Len(chunkLog) : chunkLog[n].ok}
Merged(key) == Elements(Get(combinedResult.rawResult, key))
Keys == {ListKeys[n] : n \in 1..Len(ListKeys)}

\* C6: a chunk whose analysis fails is skipped and the chunks after it are
\* still analysed; the analysis returns a merged record exactly when at least
\* one chunk succeeded, and with no successful chunk it throws 'No valid
\* results from any document sections'.
C6_FailsOnlyWhenNoChunkSucceeds ==
  multiPc = "done" =>
    /\ Len(chunkLog) = Len(chunks)
    /\ \A n \in 1..Len(chunkLog) : chunkLog[n].chunk = n - 1
    /\ Len(chunkResults) = Cardinality(Succeeded)
    /\ multiOutcome = "returned" <=> Succeeded # {}
    /\ multiOutcome = "thrown" <=> Succeeded = {}
    /\ multiOutcome = "thrown" => multiError = NoValidResults
    /\ multiOutcome = "returned" => combinedResult.rawResult # Undefined
C6_Witness ==
  /\ MultiReturned
  /\ Len(chunkLog) = 3
  /\ ~chunkLog[1].ok /\ chunkLog[1].why = "network"
  /\ ~chunkLog[2].ok /\ chunkLog[2].why = "parse"
  /\ chunkLog[3].ok

\* C7: in each category of the merged record the declared identifiers are
\* pairwise distinct, and the entry kept for an identifier is the first one
\* with it in chunk order.
IdOf(item) == Get(item, "id")
FirstOccurrences(list) ==
  {p \in 1..Len(list) : \A q \in 1..(p - 1) : IdOf(list[q]) # IdOf(list[p])}
NthOf(positions, n) ==
  CHOOSE p \in positions : Cardinality({q \in positions : q <= p}) = n
C7_MergedIdsDistinctFirstKept ==
  MultiReturned =>
    \A key \in Keys :
      /\ \A m, n \in 1..Len(Merged(key)) :
           m # n => IdOf(Merged(key)[m]) # IdOf(Merged(key)[n])
      /\ Len(Merged(key)) = Cardinality(FirstOccurrences(pushed[key]))
      /\ \A n \in 1..Len(Merged(key)) :
           Merged(key)[n] = pushed[key][NthOf(FirstOccurrences(pushed[key]), n)]
C7_Witness ==
  /\ MultiReturned
  /\ \E m, n \in 1..Len(pushed["exclusions"]) :
       /\ m < n
       /\ pushed["exclusions"][m] = Exclusion("EX-1", "first")
       /\ pushed["exclusions"][n] = Exclusion("EX-1", "second")
  /\ \E n \in 1..Len(Merged("exclusions")) : Merged("exclusions")[n] = Exclusion("EX-1", "first")

\* The lists of the successful chunks among the first n, in chunk order.
RECURSIVE ListsUpTo(_, _)
ListsUpTo(key, n) ==
  IF n = 0 THEN <<>>
  ELSE ListsUpTo(key, n - 1)
       \o (IF chunkLog[n].ok THEN Elements(Get(chunkLog[n].rawResult, key)) ELSE <<>>)
SummaryOf(n) == Get(chunkLog[n].rawResult, "executiveSummary")
Lowest(set) == CHOOSE n \in set : \A m \in set : n <= m
WithNonNullSummary == {n \in Succeeded : SummaryOf(n) \notin {Undefined, <<Null>>}}
WithTruthySummary == {n \in Succeeded : Truthy(SummaryOf(n))}
ListsConcatenated == \A key \in Keys : pushed[key] = ListsUpTo(key, Len(chunkLog))

\* C8 (as stated): each category list is, before deduplication, the
\* concatenation in chunk order of the successful chunks' lists, and the merged
\* executive summary is that of the lowest-indexed successful chunk that has
\* a non-null one.
C8_FirstNonNullSummary ==
  MultiReturned =>
    /\ ListsConcatenated
    /\ WithNonNullSummary # {} =>
         Get(combinedResult.rawResult, "executiveSummary") = SummaryOf(Lowest(WithNonNullSummary))

\* C8 (amended): each category list is, before deduplication, the
\* concatenation in chunk order of the successful chunks' lists, and the merged
\* executive summary is that of the lowest-indexed successful chunk whose
\* executive summary is truthy (null when no chunk has one).
C8_FirstTruthySummary ==
  MultiReturned =>
    /\ ListsConcatenated
    /\ Get(combinedResult.rawResult, "executiveSummary") =
         IF WithTruthySummary = {} THEN <<Null>> ELSE SummaryOf(Lowest(WithTruthySummary))
C8_Witness ==
  /\ MultiReturned
  /\ Cardinality(WithTruthySummary) >= 2
  /\ Lowest(WithNonNullSummary) < Lowest(WithTruthySummary)
  /\ Len(pushed["exclusions"]) > Len(Elements(Get(chunkLog[Lowest(Succeeded)].rawResult, "exclusions")))

(***************************************************************************)
(* Properties of splitTextIntoChunks (SpecSplit).                         *)
(***************************************************************************)
Budget == maxTokens * CharsPerToken
\* The text with every paragraph break replaced by two newlines.
RECURSIVE NormalizeBreaksFrom(_, _)
NormalizeBreaksFrom(t, k) ==
  IF k > Len(t) THEN <<>>
  ELSE IF t[k] = "\n" /\ LastNewlineOfRun(t, k + 1, 0) # 0
    THEN <<"\n", "\n">> \o NormalizeBreaksFrom(t, LastNewlineOfRun(t, k + 1, 0) + 1)
  ELSE <<t[k]>> \o NormalizeBreaksFrom(t, k + 1)

\* C9 (as stated): a text no longer than the budget comes back as exactly one
\* chunk, equal to the text.
C9_UnderBudgetOneChunkEqual ==
  (splitPc = "done" /\ Len(text) <= Budget) => finalChunks = <<text>>

\* C9 (amended): a text no longer than the budget that is not blank comes
\* back as exactly one chunk, the text with its paragraph breaks replaced by
\* two newlines and the white space at its ends trimmed; a blank text comes
\* back as no chunk.
C9_UnderBudgetOneChunkNormalized ==
  (splitPc = "done" /\ Len(text) <= Budget) =>
    finalChunks = IF TrimText(text) = <<>>
                  THEN <<>>
                  ELSE <<TrimText(NormalizeBreaksFrom(text, 1))>>
C9_Witness ==
  /\ splitPc = "done"
  /\ Len(text) <= Budget
  /\ Len(finalChunks) = 1
  /\ Len(SplitParagraphs(text)) = 2
  /\ finalChunks[1] # text
  /\ Len(finalChunks[1]) = Len(text) - 1

\* C10: every chunk returned is no longer than the budget.
C10_ChunksWithinBudget ==
  splitPc = "done" => \A n \in 1..Len(finalChunks) : Len(finalChunks[n]) <= Budget

\* The content of a text: its characters other than white space and other
\* than the runs of full stops that end a sentence (a run followed by white
\* space or by the end of the text).
RECURSIVE ContentFrom(_, _)
ContentFrom(t, k) ==
  IF k > Len(t) THEN <<>>
  ELSE IF IsSpace(t[k]) THEN ContentFrom(t, k + 1)
  ELSE IF t[k] = "." /\ (SkipStops(t, k) > Len(t) \/ IsSpace(t[SkipStops(t, k)]))
    THEN ContentFrom(t, SkipStops(t, k))
  ELSE <<t[k]>> \o ContentFrom(t, k + 1)
Content(t) == ContentFrom(t, 1)
RECURSIVE ContentOfAll(_)
ContentOfAll(chunkList) ==
  IF chunkList = <<>> THEN <<>>
  ELSE Content(Head(chunkList)) \o ContentOfAll(Tail(chunkList))

\* C11: the contents of the chunks, one after the other, are the content of
\* the text: nothing but separators (white space, sentence-ending full
\* stops) is lost, added, changed or moved by the split.
C11_ChunksReproduceText ==
  splitPc = "done" => ContentOfAll(finalChunks) = Content(text)
\* Three chunks of different content, cut at paragraph or sentence breaks.
C11_Witness ==
  /\ splitPc = "done"
  /\ Len(finalChunks) >= 3
  /\ Content(finalChunks[1]) # Content(finalChunks[2])
  /\ Content(text) # <<>>
  /\ ContentOfAll(finalChunks) = Content(text)

(***************************************************************************)
(* Properties of the progress reports (SpecReport).                       *)
(***************************************************************************)
\* C12: the percents passed to onProgress never go down and none is above
\* 100 (none is below 0: every percent is a sum of Numbers that are not
\* negative).
C12_ProgressMonotoneInRange ==
  /\ \A n \in 1..Len(progress) : ~Less(FromNat(100), progress[n])
  /\ Len(progress) = 2 => ~Less(progress[2], progress[1])

(***************************************************************************)
(* Properties of the loop over the chunks (SpecMulti).                    *)
(***************************************************************************)
\* C13: the chunks are analysed one after the other in increasing index: at
\* most one remote call is in flight, it is the call for the chunk after the
\* ones whose analysis has ended (returned or failed), those ended in index
\* order, and chunkResults holds the records of the successful ones in chunk
\* order.
C13_ChunksAnalysedInOrder ==
  /\ Cardinality(outstanding) <= 1
  /\ outstanding \subseteq {Len(chunkLog)}
  /\ \A n \in 1..Len(chunkLog) : chunkLog[n].chunk = n - 1
  /\ Len(chunkResults) = Cardinality(Succeeded)
  /\ \A n \in 1..Len(chunkResults) :
       chunkResults[n].rawResult = chunkLog[NthOf(Succeeded, n)].rawResult
\* The call for the third chunk is in flight after the first two chunks gave
\* two different records.
C13_Witness ==
  /\ outstanding = {2}
  /\ Succeeded = {1, 2}
  /\ chunkResults[1] # chunkResults[2]

(***************************************************************************)
(* Properties of normalizeContent and safeStringify (SpecNormalize).      *)
(***************************************************************************)
Normalized == normalizePc = "done"
MessageContent == Get(MessageOf(payload), "content")
ChoiceContent == Get(ChoiceOf(payload), "content")
RuleA == IsString(MessageContent) /\ ~IsBlank(MessageContent[1].t)
RuleB == IsString(ChoiceContent) /\ ~IsBlank(ChoiceContent[1].t)
\* The message has a field other than content that is not empty.
OtherNonEmptyFields ==
  \E n \in 1..Len(Members(MessageOf(payload))) :
    /\ Members(MessageOf(payload))[n][1] # "content"
    /\ Members(MessageOf(payload))[n][2]
         \notin {<<Null>>, Str(""), MkArray(<<>>), MkObject(<<>>)}

\* C14 (as stated): the text returned is the one of the first rule that
\* applies: (a) the message's string content when not blank, (b) the
\* choice's string content when not blank, (c) the joined parts of an
\* array-valued message content, (d) the dump of the message when it has
\* another non-empty field, (e) the dump of the envelope.
C14_FirstApplicableRule ==
  Normalized =>
    normalized.text =
      IF RuleA THEN MessageContent[1].t
      ELSE IF RuleB THEN ChoiceContent[1].t
      ELSE IF IsArray(MessageContent) THEN JoinedParts(Elements(MessageContent))
      ELSE IF OtherNonEmptyFields THEN safeStringify(MessageOf(payload))
      ELSE safeStringify(payload)

\* C14 (amended): rule (c) applies only when the joined parts are not blank,
\* and rule (d) whenever the message has a field at all.
C14_FirstApplicableRuleNotBlank ==
  Normalized =>
    normalized.text =
      IF RuleA THEN MessageContent[1].t
      ELSE IF RuleB THEN ChoiceContent[1].t
      ELSE IF IsArray(MessageContent) /\ ~IsBlank(JoinedParts(Elements(MessageContent)))
        THEN JoinedParts(Elements(MessageContent))
      ELSE IF Truthy(MessageOf(payload)) /\ HasKeys(MessageOf(payload))
        THEN safeStringify(MessageOf(payload))
      ELSE safeStringify(payload)
\* An array of parts without text: the message is dumped although content is
\* its only field.
C14_Witness ==
  /\ Normalized
  /\ ~RuleA /\ ~RuleB
  /\ IsArray(MessageContent)
  /\ Len(Elements(MessageContent)) > 0
  /\ ~OtherNonEmptyFields
  /\ normalized.text = safeStringify(MessageOf(payload))
  /\ normalized.text # safeStringify(payload)

\* What normalizeContent dumped, when it dumped.
Dumped ==
  IF normalized.rule = "d" THEN MessageOf(payload)
  ELSE IF normalized.rule = "e" THEN payload
  ELSE Undefined
RECURSIVE CappedByNesting(_, _), CappedEntries(_, _, _)
CappedEntries(entries, named, level) ==
  IF entries = <<>> THEN <<>>
  ELSE Indent(level)
       \o (IF named THEN <<S(entries[1][1]), Colon, Sp>> ELSE <<>>)
       \o CappedByNesting(entries[1][2], level)
       \o (IF Len(entries) > 1 THEN <<Comma>> ELSE <<>>)
       \o <<Nl>> \o CappedEntries(Tail(entries), named, level)
CappedByNesting(value, level) ==
  IF level > maxDepth THEN <<S("[Max Depth Reached]")>>
  ELSE IF IsObject(value) /\ Members(value) # <<>>
    THEN <<LBrace, Nl>> \o CappedEntries(Members(value), TRUE, level + 1)
         \o Indent(level) \o <<RBrace>>
  ELSE IF IsArray(value) /\ Elements(value) # <<>>
    THEN <<LBrack, Nl>>
         \o CappedEntries([n \in 1..Len(Elements(value)) |-> <<"", Elements(value)[n]>>],
                          FALSE, level + 1)
         \o Indent(level) \o <<RBrack>>
  ELSE value
\* C16: in a dump a value is replaced by '[Max Depth Reached]' exactly when
\* it lies more than 3 levels below the dumped root, however many objects
\* the dump holds (no string of the envelopes is longer than 1000
\* characters, no array longer than 100 items).
C16_DepthCapByNesting ==
  (Normalized /\ Dumped # Undefined /\ ~DumpThrows(Dumped)) =>
    normalized.text = ConcatText(CappedByNesting(Dumped, 0))

(***************************************************************************)
(* extractTablesFromPage: the tables of a page.                            *)
(***************************************************************************)
PageYs == {textContent.items[k].y : k \in 1..Len(textContent.items)}
ItemsAt(py) == {k \in 1..Len(textContent.items) : textContent.items[k].y = py}
EvenlySpaced(xs) ==
  \E first \in xs : \E gap \in 1..Greatest(xs) :
    xs = {first + gap * (c - 1) : c \in 1..Cardinality(xs)}
GridOf(columns) ==
  /\ Cardinality(PageYs) >= 3
  /\ columns >= 3
  /\ \A k \in 1..Len(textContent.items) : ~IsBlank(textContent.items[k].str)
  /\ \A py \in PageYs : \A qy \in PageYs : py # qy => Abs(py - qy) > 3
  /\ \A py \in PageYs :
       /\ Cardinality(ItemsAt(py)) = columns
       /\ Cardinality({textContent.items[k].x : k \in ItemsAt(py)}) = columns
       /\ EvenlySpaced({textContent.items[k].x : k \in ItemsAt(py)})
\* The c-th item from the left of the r-th row from the top.
GridItem(r, c) ==
  LET py == CHOOSE qy \in PageYs : Cardinality({ry \in PageYs : ry > qy}) = r - 1
      k == CHOOSE j \in ItemsAt(py) :
             Cardinality({h \in ItemsAt(py) :
                            textContent.items[h].x < textContent.items[j].x}) = c - 1
  IN  textContent.items[k]
CellsAt(table, r, c) ==
  {k \in 1..Len(table.cells) : table.cells[k].row = r /\ table.cells[k].col = c}
\* C17: a page of R >= 3 rows by C >= 3 items with text, the y of the rows
\* more than 3 apart and the x of each row evenly spaced with a positive gap,
\* gives exactly one table, of R rows and C columns, whose cell (r, c) holds
\* the text of the c-th item from the left of the r-th row from the top.
C17_GridGivesOneTable ==
  \A columns \in 3..Len(textContent.items) :
    extractPc = "returned" /\ GridOf(columns) =>
      /\ Len(tables) = 1
      /\ tables[1].rows = Cardinality(PageYs)
      /\ tables[1].columns = columns
      /\ Len(tables[1].cells) = columns * Cardinality(PageYs)
      /\ \A r \in 1..Cardinality(PageYs) : \A c \in 1..columns :
           \E k \in CellsAt(tables[1], r - 1, c - 1) :
             tables[1].cells[k].text = GridItem(r, c).str
C17_Witness ==
  /\ extractPc = "returned"
  /\ GridOf(4)
  /\ Cardinality(PageYs) = 4
  /\ textContent.items[1].y < textContent.items[Len(textContent.items)].y
  /\ Len(tables) = 1

Gaps(row) == [k \in 1..(Len(row) - 1) |-> row[k + 1].x - row[k].x]
Irregular(row) ==
  \E j \in 1..(Len(row) - 1) : \E k \in 1..(Len(row) - 1) : Gaps(row)[j] # Gaps(row)[k]
\* C18: a page all of whose rows have gaps between the x of consecutive items
\* that are not all equal gives no tables.
C18_IrregularRowsNoTables ==
  extractPc = "returned" /\ (\A r \in 1..Len(rows) : Irregular(rows[r])) => tables = <<>>
\* Fewer than nine tenths of the gaps of the row have |gap - mean| / mean,
\* worked out as Numbers, below 0.5.
FewSmallDeviations(row) ==
  10 * Cardinality({k \in 1..(Len(row) - 1) :
                      HasSmallDeviation(Gaps(row)[k], Total(Gaps(row)), Len(row) - 1)})
    < 9 * (Len(row) - 1)
\* C18, as the code has it: a page all of whose rows, as grouped, fail the
\* test for a table row (fewer than 3 items, or fewer than nine tenths of the
\* gaps with a relative deviation from the mean gap below 0.5) gives no
\* tables.
C18_UnqualifiedRowsNoTables ==
  extractPc = "returned"
    /\ (\A r \in 1..Len(rows) : Len(rows[r]) < 3 \/ FewSmallDeviations(rows[r]))
    => tables = <<>>
C18_Witness ==
  /\ extractPc = "returned"
  /\ Len(rows) >= 3
  /\ \A r \in 1..Len(rows) : Len(rows[r]) >= 3 /\ FewSmallDeviations(rows[r])
  /\ tables = <<>>

CandidateOf(table) ==
  tableCandidates[CHOOSE n \in 1..Len(tableCandidates) :
                    table.id = "table_" \o Decimal(pageNumber) \o "_" \o Decimal(n - 1)]
\* C19: in every table returned no two cells have the same (row, col), every
\* cell has 0 <= row < table.rows and 0 <= col < table.columns, and
\* table.columns is the length of the longest row of the candidate.
C19_CellAddresses ==
  extractPc = "returned" =>
    \A t \in 1..Len(tables) :
      /\ \A j \in 1..Len(tables[t].cells) : \A k \in 1..Len(tables[t].cells) :
           /\ tables[t].cells[j].row = tables[t].cells[k].row
           /\ tables[t].cells[j].col = tables[t].cells[k].col
           => j = k
      /\ \A k \in 1..Len(tables[t].cells) :
           /\ tables[t].cells[k].row \in 0..(tables[t].rows - 1)
           /\ tables[t].cells[k].col \in 0..(tables[t].columns - 1)
      /\ \E r \in 1..Len(CandidateOf(tables[t]).rows) :
           /\ Len(CandidateOf(tables[t]).rows[r]) = tables[t].columns
           /\ \A q \in 1..Len(CandidateOf(tables[t]).rows) :
                Len(CandidateOf(tables[t]).rows[q]) <= tables[t].columns
C19_Witness ==
  /\ extractPc = "returned"
  /\ Len(tables) = 1
  /\ tables[1].columns = 4
  /\ Len(CandidateOf(tables[1]).rows[1]) = 3
  /\ Len(tables[1].cells) < tables[1].rows * tables[1].columns

\* C20: the rows that groupTextItemsIntoRows returns go from the top down and
\* each from left to right: x does not decrease along a row, and every item
\* of a row has a greater y than every item of a later row; no items give no
\* rows, and extractTablesFromPage returns no tables then.
C20_RowsTopDownLeftRight ==
  /\ extractPc \in {"grouped", "detected", "returned"} /\ textItems # <<>> =>
       /\ \A r \in 1..Len(rows) : \A c \in 1..(Len(rows[r]) - 1) :
            rows[r][c].x <= rows[r][c + 1].x
       /\ \A r \in 1..Len(rows) : \A q \in (r + 1)..Len(rows) :
            \A c \in 1..Len(rows[r]) : \A d \in 1..Len(rows[q]) :
              rows[r][c].y > rows[q][d].y
  /\ extractPc = "returned" /\ textItems = <<>> =>
       groupTextItemsIntoRows(textItems) = <<>> /\ tables = <<>>
C20_Witness ==
  /\ extractPc = "grouped"
  /\ Len(rows) >= 3
  /\ textItems[1].y < textItems[Len(textItems)].y
  /\ \E r \in 1..Len(rows) : \E c \in 1..Len(rows[r]) : rows[r][c].y # rows[r][1].y
  /\ \E k \in 1..(Len(textItems) - 1) : textItems[k].x > textItems[k + 1].x

\* The test for a table row in exact arithmetic: at least 3 items, and at
\* least nine tenths of the gaps less than half the mean gap away from it.
ExactlyConsistent(row) ==
  {k \in 1..(Len(row) - 1) :
     2 * Abs(Gaps(row)[k] * (Len(row) - 1) - Total(Gaps(row))) < Total(Gaps(row))}
QualifiesExactly(row) ==
  /\ Len(row) >= 3
  /\ 10 * Cardinality(ExactlyConsistent(row)) >= 9 * (Len(row) - 1)
\* C22: isTableRow(row) holds exactly when the row has at least 3 items and
\* at least 0.9 of the gaps between the x of consecutive items lie within
\* 50% relative deviation of the mean gap.
C22_QualifiesIffConsistent ==
  extractPc \in {"grouped", "detected", "returned"} =>
    \A r \in 1..Len(rows) : isTableRow(rows[r]) <=> QualifiesExactly(rows[r])

Qualifying == {r \in 1..Len(rows) : isTableRow(rows[r])}
\* The runs of at least MIN_TABLE_ROWS qualifying rows that no qualifying
\* row precedes or follows, as <<first, last>>.
MaximalRuns ==
  {run \in (1..Len(rows)) \X (1..Len(rows)) :
     /\ run[2] - run[1] + 1 >= 3
     /\ \A r \in run[1]..run[2] : r \in Qualifying
     /\ run[1] - 1 \notin Qualifying
     /\ run[2] + 1 \notin Qualifying}
\* C23: the candidates of detectTableStructures are exactly the maximal runs
\* of at least 3 consecutive qualifying rows, in increasing row order, and no
\* row belongs to two of them.
C23_CandidatesAreMaximalRuns ==
  extractPc \in {"detected", "returned"} =>
    /\ {<<tableCandidates[n].startIndex + 1, tableCandidates[n].endIndex + 1>> :
          n \in 1..Len(tableCandidates)} = MaximalRuns
    /\ \A n \in 1..Len(tableCandidates) :
         tableCandidates[n].rows =
           SubSeq(rows, tableCandidates[n].startIndex + 1, tableCandidates[n].endIndex + 1)
    /\ \A n \in 1..(Len(tableCandidates) - 1) :
         tableCandidates[n].endIndex < tableCandidates[n + 1].startIndex
C23_Witness ==
  /\ extractPc = "detected"
  /\ Len(tableCandidates) = 2
  /\ tableCandidates[1].endIndex + 1 < tableCandidates[2].startIndex
  /\ textItems[1].y < textItems[Len(textItems)].y

\* C30: every candidate becomes a table of at least MIN_TABLE_ROWS rows and
\* MIN_TABLE_COLS columns, and the page returns as many tables as candidates
\* were detected.
C30_EveryCandidateATable ==
  extractPc = "returned" /\ textItems # <<>> =>
    /\ Len(tables) = Len(tableCandidates)
    /\ \A n \in 1..Len(tableCandidates) :
         /\ createTableFromCandidate(tableCandidates[n], pageNumber, n - 1) # NoTable
         /\ createTableFromCandidate(tableCandidates[n], pageNumber, n - 1).rows >= 3
         /\ createTableFromCandidate(tableCandidates[n], pageNumber, n - 1).columns >= 3
         /\ tables[n] = createTableFromCandidate(tableCandidates[n], pageNumber, n - 1)
C30_Witness ==
  /\ extractPc = "returned"
  /\ Len(tableCandidates) = 2
  /\ Len(tables) = 2
  /\ tables[2].id = "table_1_1"

(***************************************************************************)
(* Properties of validateConfig (SpecValidate).                            *)
(***************************************************************************)
Validated == validation # NoValidation
Contains(errors, message) == \E n \in 1..Len(errors) : errors[n] = message

\* C21: validateConfig returns isValid = true exactly when its list of errors
\* is empty; for a configuration with useLocalModel = false the result is
\* valid exactly when apiKey is not empty, and with an empty apiKey the errors
\* contain 'API key is required for OpenRouter', whatever the local endpoint
\* fields hold.
C21_ValidIffNoErrors ==
  Validated =>
    /\ validation.isValid <=> validation.errors = <<>>
    /\ ~config.useLocalModel =>
         /\ validation.isValid <=> config.apiKey # ""
         /\ config.apiKey = "" => Contains(validation.errors, ApiKeyRequired)
\* An invalid configuration for OpenRouter whose local endpoint is no URL and
\* whose local model has no name.
C21_Witness ==
  /\ Validated
  /\ ~config.useLocalModel
  /\ config.apiKey = ""
  /\ ~ParsesAsURL(config.localEndpointUrl)
  /\ config.localModelName = ""
  /\ validation.errors = <<ApiKeyRequired>>


(***************************************************************************)
(* Properties of the fallbacks of the parse stage (SpecParse).            *)
(***************************************************************************)
Entered(stage) == \E p \in 1..Len(tried) : tried[p] = stage
\* The target fields extractFromNaturalLanguage sets from the text: the four
\* fields of the summary and the three lists of findings.
PopulatedFields ==
  {SummaryFields[n] : n \in {n \in 1..Len(SummaryFields) :
     (CASE SummaryFields[n] = "reportPeriod" -> ExtractField(content, periodPatterns, Str("Not specified"))
        [] SummaryFields[n] = "serviceOrganization" -> ExtractField(content, serviceOrgPatterns, Str("Not specified"))
        [] SummaryFields[n] = "auditor" -> ExtractField(content, auditorPatterns, Str("Not specified"))
        [] SummaryFields[n] = "opinion" -> ExtractOpinion(content)) # Str("Not specified")}}
  \union {label \in {"control failure", "exclusion", "carve-out"} : KeywordMatches(content, 1, label) # <<>>}

\* C24: when all structural strategies have failed, the natural-language
\* extraction gives the record returned exactly when it populated at least one
\* target field (service organization, auditor, report period, opinion or a
\* list of findings) beyond its default; the stub is returned only when it
\* populated none.
C24_ExtractionReturnsIffPopulated ==
  pc = "done" /\ Entered("naturalLanguage") =>
    /\ source = "naturalLanguage" <=> PopulatedFields # {}
    /\ source = "fallback" => PopulatedFields = {}


\* C25: strategy 4 is subsumed by strategy 1: the text strategy 4 hands to
\* JSON.parse, when it passes the guard on its first and last character, is
\* the span from the first { to the last } that strategy 1 parsed, so
\* strategy 4 never yields a result where strategy 1 failed.
C25_Strategy4Subsumed ==
  Entered("strategy4") =>
    /\ StartsAndEndsWithBraces(CleanEnds(content)) =>
         Strategy4Text(content) = Strategy1Text(content)
    /\ \A n \in 1..Len(yields) : yields[n].stage # "strategy4"
    /\ pc \notin {"strategy1", "strategy2", "strategy3", "strategy4"} =>
         Strategy4(content, <<Null>>) = <<Null>>
\* Strategy 4 was entered on a text that starts with other words, and its
\* cleaned text passed the guard.
C25_Witness ==
  /\ pc = "done"
  /\ Entered("strategy4")
  /\ content[1] # LBrace
  /\ StartsAndEndsWithBraces(CleanEnds(content))
  /\ Len(CleanEnds(content)) < Len(content)


(***************************************************************************)
(* Properties of the parse stage after a dump (SpecNormalize).            *)
(***************************************************************************)
SchemaKeys == {"executiveSummary", "controlFailures", "exclusions", "carveOuts"}
DumpedKeys == {Members(Dumped)[n][1] : n \in 1..Len(Members(Dumped))}
\* The content of the parse stage is the text normalizeContent returned.
ContentIsDump == pc # "idle" => ConcatText(content) = normalized.text

\* C26: when normalizeContent falls back to a dump that succeeds (rule d or
\* e), the text dumped is a well-formed JSON object, strategy 1 parses it and
\* the analysis returns a record built from what was dumped, without findings
\* unless the dump has keys of the schema; neither the natural-language
\* extraction nor the stub is produced.
C26_DumpParsedByStrategy1 ==
  pc = "done" /\ normalized.rule \in {"d", "e"} /\ ~DumpThrows(Dumped) =>
    /\ IsObject(content)
    /\ JSONParse(content) # ParseError
    /\ source = "strategy1"
    /\ outcome = "returned"
    /\ record.rawResult = JSONParse(content)
    /\ DumpedKeys \cap SchemaKeys = {} => record.findings = <<>>
    /\ ~Entered("naturalLanguage")
    /\ ~Entered("fallback")


(***************************************************************************)
(* More properties of splitTextIntoChunks (SpecSplit).                    *)
(***************************************************************************)
\* C27: no chunk returned by splitTextIntoChunks is empty or holds white
\* space only, so that analyzeMultipleChunks, which issues one remote call
\* for every chunk returned, issues none for an empty chunk.
C27_NoBlankChunk ==
  splitPc = "done" => \A n \in 1..Len(finalChunks) : TrimText(finalChunks[n]) # <<>>


(***************************************************************************)
(* More properties of combineChunkResults (SpecMulti).                    *)
(***************************************************************************)
\* The positions of the list pushed for a category that no earlier position
\* of the same list shares its identifier with.
NotSeenBefore(key) ==
  {p \in 1..Len(pushed[key]) :
     \A q \in 1..(p - 1) : Get(pushed[key][q], "id") # Get(pushed[key][p], "id")}
\* The positions of the list pushed that the merged list keeps, in the order
\* of the merged list.
KeptPositions(key) ==
  [n \in 1..Len(Merged(key)) |->
     CHOOSE p \in 1..Len(pushed[key]) :
       /\ pushed[key][p] = Merged(key)[n]
       /\ Cardinality({q \in NotSeenBefore(key) : q < p}) = n - 1
       /\ p \in NotSeenBefore(key)]
Unnamed(list) == {p \in 1..Len(list) : Get(list[p], "id") = Undefined}

\* C28: the duplicates are removed within one category: a finding is dropped
\* from the merged list exactly when an earlier finding of the same category,
\* in the order of the chunks, has an equal identifier; findings of different
\* categories with the same identifier are all kept; the findings kept stay
\* in their order; the findings without an identifier count as sharing one,
\* and only the first of them is kept.
C28_DuplicatesWithinCategory ==
  MultiReturned =>
    \A key \in Keys :
      /\ Len(Merged(key)) = Cardinality(NotSeenBefore(key))
      /\ \A n \in 1..Len(Merged(key)) :
           /\ KeptPositions(key)[n] \in NotSeenBefore(key)
           /\ Merged(key)[n] = pushed[key][KeptPositions(key)[n]]
           /\ \A m \in 1..(n - 1) : KeptPositions(key)[m] < KeptPositions(key)[n]
      /\ \A p \in 1..Len(pushed[key]) :
           (\A q \in 1..(p - 1) : Get(pushed[key][q], "id") # Get(pushed[key][p], "id"))
             => \E n \in 1..Len(Merged(key)) : Merged(key)[n] = pushed[key][p]
      /\ Unnamed(pushed[key]) # {} =>
           /\ Cardinality(Unnamed(Merged(key))) = 1
           /\ \E n \in 1..Len(Merged(key)) :
                Merged(key)[n] = pushed[key][CHOOSE p \in Unnamed(pushed[key]) :
                                               \A q \in Unnamed(pushed[key]) : p <= q]
\* Two chunks gave an exclusion EX-1 and an exclusion without id each, one of
\* them also a carve-out EX-1: the merged exclusions hold the first EX-1 and
\* the first exclusion without id, the merged carve-outs their EX-1.
C28_Witness ==
  /\ MultiReturned
  /\ Cardinality(Unnamed(pushed["exclusions"])) >= 2
  /\ Cardinality(Unnamed(Merged("exclusions"))) = 1
  /\ \E p \in 1..Len(pushed["exclusions"]) : p \notin NotSeenBefore("exclusions")
  /\ \E m \in 1..Len(Merged("exclusions")), n \in 1..Len(Merged("carveOuts")) :
       /\ Get(Merged("exclusions")[m], "id") = Str("EX-1")
       /\ Get(Merged("carveOuts")[n], "id") = Str("EX-1")


(***************************************************************************)
(* More properties of the progress reports (SpecReport).                  *)
(***************************************************************************)
LastPercent == progress[Len(progress)]
\* The percent reported when analyzeSingleChunk completes section n of a
\* report analysed in sections.
CompletionOf(n) ==
  Plus(Plus(FromNat(15), Times(Divided(n - 1, totalChunks), FromNat(70))),
       Times(Divided(100, 100), Divided(70, totalChunks)))

\* C29: onProgress is called with 100 exactly when the call of
\* analyzeSOC1Report returns a record, and that call of onProgress is the
\* last one: a call that throws never reports 100, and when the report is
\* analysed in sections the completion of a section is reported at no more
\* than 85.
C29_HundredOnlyOnReturn ==
  /\ reportOutcome = "returned" => progress # <<>> /\ LastPercent = FromNat(100)
  /\ progress # <<>> /\ LastPercent = FromNat(100) =>
       reportPc = "done" /\ reportOutcome = "returned"
  /\ /\ ~SingleCall
     /\ reportPc = "loop"
     /\ sectionIndex > 0
     /\ LastPercent = CompletionOf(sectionIndex)
     => ~Less(FromNat(85), LastPercent)

=============================================================================
